---- MODULE Spec2Model ----
(***************************************************************************)
(* A model of the rental-management server: the Express routes of          *)
(* server/routes.ts (src/unnamed/part_001) running over the storage layer  *)
(* of server/storage.ts (src/unnamed/part_000), with its two backends:     *)
(* DatabaseStorage (PostgreSQL through drizzle, the one the server wires   *)
(* in, part_000:1335) and MemStorage (in-process Maps).                    *)
(*                                                                         *)
(* A request is a process.  With DatabaseStorage every awaited statement   *)
(* is a step of its own, other requests run between two statements, and    *)
(* any statement may throw.  With MemStorage the storage methods contain   *)
(* no I/O await, so a handler runs to its response in one step.            *)
(***************************************************************************)
EXTENDS Integers, Sequences, FiniteSets, TLC

(***************************************************************************)
(* Bounds of the model.                                                    *)
(***************************************************************************)
MaxReq == 2          \* requests issued in one behaviour
MaxPosts == 1        \* of them, POST /api/contracts requests
MaxDuration == 2     \* largest contract duration (months) a request asks for

Reqs == 1..MaxReq

(***************************************************************************)
(* SQL NULL / JS null: a nullable column holds Null or Val(x).             *)
(***************************************************************************)
Null == << >>
Val(x) == << x >>

\* JS `x || 0` on a nullable number and `x || false` on a nullable boolean
\* (null, undefined, 0 and false are falsy).
OrZero(x) == IF x = Null THEN Val(0) ELSE x
OrFalse(x) == IF x = Null THEN Val(FALSE) ELSE x

(***************************************************************************)
(* Calendar dates, and the JS Date arithmetic the server does on them.     *)
(***************************************************************************)
Date(y, m, d) == [y |-> y, m |-> m, d |-> d]

IsLeap(y) == (y % 4 = 0 /\ y % 100 # 0) \/ y % 400 = 0

DaysInMonth(y, m) ==
    IF m = 2 THEN (IF IsLeap(y) THEN 29 ELSE 28)
    ELSE IF m \in {4, 6, 9, 11} THEN 30 ELSE 31

\* Calendar order of two dates (the order of their YYYY-MM-DD strings and of
\* their UTC midnights).
DateLT(a, b) ==
    \/ a.y < b.y
    \/ a.y = b.y /\ a.m < b.m
    \/ a.y = b.y /\ a.m = b.m /\ a.d < b.d

DateLE(a, b) == a = b \/ DateLT(a, b)

\* The date JS makes of (year, 0-based month index, day): a month index past
\* 11 carries into the year and a day past the month's end rolls into the
\* following month(s).  Day 0 is the last day of the month before.
RECURSIVE MakeDay(_, _, _)
MakeDay(y, mi, d) ==
    LET yy == y + (mi \div 12)
        mm == (mi % 12) + 1
    IN  IF d < 1
        THEN LET py == IF mm = 1 THEN yy - 1 ELSE yy
                 pm == IF mm = 1 THEN 12 ELSE mm - 1
             IN  MakeDay(py, pm - 1, d + DaysInMonth(py, pm))
        ELSE IF d > DaysInMonth(yy, mm)
        THEN MakeDay(yy, mm, d - DaysInMonth(yy, mm))
        ELSE Date(yy, mm, d)

\* Date.prototype.setMonth(getMonth() + n): the day of the month is kept.
SetMonthPlus(a, n) == MakeDay(a.y, (a.m - 1) + n, a.d)

\* Date.prototype.setDate(day).
SetDate(a, day) == MakeDay(a.y, a.m - 1, day)

\* new Date("YYYY-MM-DD") is UTC midnight of that day.  The setters above
\* work on the process's local time: in a zone west of UTC that instant is
\* the evening of the day before, in UTC and east of it the same day.
LocalDate(a, west) == IF west THEN MakeDay(a.y, a.m - 1, a.d - 1) ELSE a

\* toISOString().split('T')[0] of a local evening (west) or morning.
ISODate(a, west) == IF west THEN MakeDay(a.y, a.m - 1, a.d + 1) ELSE a

\* The due date of installment i (from 0) of a contract.
DueDate(startDate, paymentDay, i, west) ==
    ISODate(SetDate(SetMonthPlus(LocalDate(startDate, west), i), paymentDay), west)

\* The end date the contract form fills in.
calculateEndDate(startDate, durationMonths, west) ==
    ISODate(SetMonthPlus(LocalDate(startDate, west), durationMonths), west)

(***************************************************************************)
(* State.  Every table maps a row's id to the row.  Timestamps (createdAt, *)
(* deletedAt, lastLogin) are not modelled.                                 *)
(***************************************************************************)
VARIABLES
    backend,          \* "db": DatabaseStorage, "mem": MemStorage
    west,             \* the server process runs in a time zone west of UTC
    users,            \* users table
    owners,           \* owners table
    tenants,          \* tenants table
    properties,       \* properties table
    contracts,        \* contracts table
    payments,         \* payments table (the live store)
    deletedPayments,  \* deleted_payments table (the ledger)
    nextId,           \* per table: the serial sequence (db) or id counter (mem)
    req               \* the requests: each one's route, position and locals

env == << backend, west >>
catalog == << users, owners, tenants, properties >>
leases == << contracts, payments, deletedPayments >>
vars == << backend, west, users, owners, tenants, properties, contracts,
           payments, deletedPayments, nextId, req >>

Tables == {"users", "owners", "tenants", "properties", "contracts", "payments",
           "deletedPayments"}

\* A table with one more row, and with one row less.
Insert(table, row) == table @@ (row.id :> row)
Remove(table, id) == [i \in DOMAIN table \ {id} |-> table[i]]
Rows(table) == {table[i] : i \in DOMAIN table}

\* A request that has not arrived yet.  op: the route; pc: the handler's
\* position; status: the HTTP status answered (0: none yet); user: the
\* session's user id (0: no session); id: req.params.id; data: the parsed
\* body; row: the handler's local row (contract, payment, ...); pending: the
\* installments whose createPayment promise has not settled.
NoReq == [op |-> "none", pc |-> "idle", status |-> 0, user |-> 0, id |-> 0,
          data |-> << >>, row |-> << >>, pending |-> {}]

\* Requests arrive in slot order.
Arrives(r) == req[r].pc = "idle" /\ \A q \in Reqs : q < r => req[q].pc # "idle"

Responded(r, code) == [req[r] EXCEPT !.pc = "done", !.status = code]

Bump(table) == [nextId EXCEPT ![table] = @ + 1]

(***************************************************************************)
(* Payments: createPayment.                                                *)
(***************************************************************************)
PaymentFields == {"contractId", "dueDate", "value", "isPaid", "paymentDate",
                  "interestAmount", "latePaymentFee", "paymentMethod",
                  "receiptNumber", "observations"}

\* A field of a parsed body: a key the body lacks reads as undefined, which
\* the spreads and `||` below treat as null.
Get(body, f) == IF f \in DOMAIN body THEN body[f] ELSE Null

\* DatabaseStorage.createPayment: the values it inserts.
DbPaymentValues(body) ==
    [contractId     |-> body.contractId,
     dueDate        |-> body.dueDate,
     value          |-> body.value,
     isPaid         |-> IF "isPaid" \in DOMAIN body THEN body.isPaid ELSE Val(FALSE),
     paymentDate    |-> Get(body, "paymentDate"),
     interestAmount |-> OrZero(Get(body, "interestAmount")),
     latePaymentFee |-> OrZero(Get(body, "latePaymentFee")),
     paymentMethod  |-> Get(body, "paymentMethod"),
     receiptNumber  |-> Get(body, "receiptNumber"),
     observations   |-> Get(body, "observations")]

\* MemStorage.createPayment: the body spread into the row as it is.
MemPaymentValues(body) == [f \in PaymentFields |-> Get(body, f)]

\* The row createPayment stores under a fresh id.
PaymentRow(values, id) == [f \in PaymentFields \cup {"id"} |->
                              IF f = "id" THEN id ELSE values[f]]

(***************************************************************************)
(* POST /api/contracts: createContract, then one createPayment per month.  *)
(***************************************************************************)
\* A loop that starts at i = 1.
InstallmentsFromOne(contract) == 1 .. (contract.duration - 1)
\* The installments the loop generates: i = 0 .. duration - 1.
Installments(contract) == 0 .. (contract.duration - 1)

\* The body of installment i.
InstallmentBody(contract, i, w) ==
    [contractId     |-> contract.id,
     dueDate        |-> DueDate(contract.startDate, contract.paymentDay, i, w),
     value          |-> contract.rentValue,
     isPaid         |-> Val(FALSE),
     paymentDate    |-> Null,
     interestAmount |-> Val(0),
     latePaymentFee |-> Val(0),
     paymentMethod  |-> Null,
     receiptNumber  |-> Null,
     observations   |-> Val(<< i + 1, contract.duration >>)]

\* contractValidationSchema: what the route accepts.
ValidContract(data) ==
    /\ data.ownerId >= 1 /\ data.tenantId >= 1 /\ data.propertyId >= 1
    /\ data.duration >= 1
    /\ data.paymentDay >= 1 /\ data.paymentDay <= 31

\* createContract: the row stored under a fresh id.
ContractRow(data, id) ==
    [id |-> id, ownerId |-> data.ownerId, tenantId |-> data.tenantId,
     propertyId |-> data.propertyId, startDate |-> data.startDate,
     endDate |-> data.endDate, duration |-> data.duration,
     rentValue |-> data.rentValue, paymentDay |-> data.paymentDay,
     status |-> data.status, observations |-> Null]

\* The foreign keys of the contracts table (schema.ts): the insert throws
\* when a referenced row is missing.
ContractRefsExist(data) ==
    /\ data.ownerId \in DOMAIN owners
    /\ data.tenantId \in DOMAIN tenants
    /\ data.propertyId \in DOMAIN properties

\* What the contract form sends: the end date is derived from the start date
\* and the duration (calculateEndDate); duration 0 fails the validation.
StartDates == {Date(2024, 1, 15), Date(2024, 1, 31), Date(2023, 12, 31)}
PaymentDays == {5, 15, 31}
Schedules == [startDate : StartDates, paymentDay : PaymentDays]
RentValues == {1000}

ContractInputs ==
    {[ownerId |-> 1, tenantId |-> 1, propertyId |-> 1, startDate |-> s.startDate,
      endDate |-> calculateEndDate(s.startDate, n, FALSE), duration |-> n,
      rentValue |-> v, paymentDay |-> s.paymentDay, status |-> "ativo"] :
        s \in Schedules, n \in 0..MaxDuration, v \in RentValues}

\* MemStorage: createPayment of every installment in loop order, with
\* consecutive ids from `first`.
MemInstallments(contract, first, w) ==
    [id \in {first + i : i \in Installments(contract)} |->
        PaymentRow(MemPaymentValues(InstallmentBody(contract, id - first, w)), id)]

\* The request arrives, its body is validated, createContract runs and the
\* loop issues every createPayment.  MemStorage completes them all at once;
\* DatabaseStorage leaves the inserts in flight (Promise.all).
PostContracts(r) ==
    /\ Arrives(r)
    /\ \E data \in ContractInputs :
        LET contract == ContractRow(data, nextId.contracts)
            arrived == [NoReq EXCEPT !.op = "postContract"]
        IN  IF ~ValidContract(data)
            THEN /\ req' = [req EXCEPT ![r] = [arrived EXCEPT !.pc = "done", !.status = 400]]
                 /\ UNCHANGED << contracts, payments, nextId >>
            ELSE IF backend = "mem"
            THEN /\ contracts' = Insert(contracts, contract)
                 /\ payments' = payments @@ MemInstallments(contract, nextId.payments, west)
                 /\ nextId' = [nextId EXCEPT !.contracts = @ + 1,
                                             !.payments = @ + contract.duration]
                 /\ req' = [req EXCEPT ![r] = [arrived EXCEPT
                                !.pc = "done", !.status = 201, !.row = contract]]
            ELSE \/ \* the insert into contracts throws
                    /\ req' = [req EXCEPT ![r] = [arrived EXCEPT !.pc = "done", !.status = 500]]
                    /\ UNCHANGED << contracts, payments, nextId >>
                 \/ /\ ContractRefsExist(data)
                    /\ contracts' = Insert(contracts, contract)
                    /\ nextId' = Bump("contracts")
                    /\ req' = [req EXCEPT ![r] = [arrived EXCEPT
                                !.pc = "awaitAll", !.row = contract,
                                !.pending = Installments(contract)]]
                    /\ UNCHANGED payments
    /\ UNCHANGED << env, catalog, deletedPayments >>

\* A handler that answers at the first fulfilment.
SettledFirst(r, i, ok) ==
    IF req[r].pc = "done" THEN [req[r] EXCEPT !.pending = @ \ {i}]
    ELSE [req[r] EXCEPT !.pending = @ \ {i}, !.pc = "done",
                        !.status = IF ok THEN 201 ELSE 500]

\* What the handler does when one createPayment promise settles: Promise.all
\* rejects on the first rejection (the catch answers 500) and resolves with
\* the last fulfilment (201).  Promises still pending at a rejection go on.
Settled(r, i, ok) ==
    LET left == req[r].pending \ {i}
    IN  IF req[r].pc = "done" THEN [req[r] EXCEPT !.pending = left]
        ELSE IF ~ok THEN [req[r] EXCEPT !.pending = left, !.pc = "done", !.status = 500]
        ELSE IF left = {} THEN [req[r] EXCEPT !.pending = left, !.pc = "done", !.status = 201]
        ELSE [req[r] EXCEPT !.pending = left]

\* One createPayment of a contract's installments completes (DatabaseStorage):
\* the row is inserted, or the insert throws.
CreateInstallment(r) ==
    /\ req[r].op = "postContract"
    /\ \E i \in req[r].pending :
        LET body == InstallmentBody(req[r].row, i, west)
        IN  \/ /\ body.contractId \in DOMAIN contracts
               /\ payments' = Insert(payments, PaymentRow(DbPaymentValues(body), nextId.payments))
               /\ nextId' = Bump("payments")
               /\ req' = [req EXCEPT ![r] = Settled(r, i, TRUE)]
            \/ /\ req' = [req EXCEPT ![r] = Settled(r, i, FALSE)]
               /\ UNCHANGED << payments, nextId >>
    /\ UNCHANGED << env, catalog, contracts, deletedPayments >>

(***************************************************************************)
(* Contract creation on its own: the store holds one owner, tenant and     *)
(* property, and every request is a POST /api/contracts.                   *)
(***************************************************************************)
OneUser == (1 :> [id |-> 1, role |-> "admin", isActive |-> TRUE])
OneOwner == (1 :> [id |-> 1, name |-> "n1", document |-> "d1", isActive |-> Val(TRUE)])
OneTenant == (1 :> [id |-> 1, name |-> "n1", document |-> "d1", isActive |-> Val(TRUE)])
OneProperty == (1 :> [id |-> 1, ownerId |-> 1, isActive |-> TRUE])

InitContracts ==
    /\ backend \in {"db", "mem"}
    /\ west \in BOOLEAN
    /\ users = OneUser
    /\ owners = OneOwner
    /\ tenants = OneTenant
    /\ properties = OneProperty
    /\ contracts = << >>
    /\ payments = << >>
    /\ deletedPayments = << >>
    /\ nextId = [t \in Tables |-> IF t \in {"users", "owners", "tenants", "properties"}
                                  THEN 2 ELSE 1]
    /\ req = [r \in Reqs |-> NoReq]

NextContracts == \E r \in 1..MaxPosts : PostContracts(r) \/ CreateInstallment(r)

SpecContracts == InitContracts /\ [][NextContracts]_vars

\* The same with the server process in UTC.
InitContractsUTC == InitContracts /\ west = FALSE

SpecContractsUTC == InitContractsUTC /\ [][NextContracts]_vars

(***************************************************************************)
(* PATCH /api/payments/:id: updatePayment.                                 *)
(***************************************************************************)
\* A row whose late fee the server works out itself (2% of the value).
UpdatedPaymentWithFee(payment, body) ==
    [f \in DOMAIN payment |->
        IF f = "latePaymentFee" THEN Val(payment.value \div 50)
        ELSE IF f \in DOMAIN body THEN body[f] ELSE payment[f]]
\* updatePayment: the keys of the body replace the row's, the rest is kept.
UpdatedPayment(payment, body) ==
    [f \in DOMAIN payment |-> IF f \in DOMAIN body THEN body[f] ELSE payment[f]]

\* The handler: one UPDATE ... RETURNING (DatabaseStorage) or one Map update
\* (MemStorage); no row means 404.  `data` is what the caller supplied.
PatchPayment(r, op, id, data, body) ==
    LET arrived == [NoReq EXCEPT !.op = op, !.id = id, !.data = data]
    IN  \/ \* the statement throws
           /\ backend = "db"
           /\ req' = [req EXCEPT ![r] = [arrived EXCEPT !.pc = "done", !.status = 500]]
           /\ UNCHANGED payments
        \/ /\ id \notin DOMAIN payments
           /\ req' = [req EXCEPT ![r] = [arrived EXCEPT !.pc = "done", !.status = 404]]
           /\ UNCHANGED payments
        \/ /\ id \in DOMAIN payments
           /\ payments' = [payments EXCEPT ![id] = UpdatedPayment(@, body)]
           /\ req' = [req EXCEPT ![r] = [arrived EXCEPT !.pc = "done", !.status = 200]]

\* The ids requests name: the two installments of the store and one id that
\* no payment has.
PaymentIds == {1, 2, 3}

\* Partial bodies insertPaymentSchema.partial() accepts (isPaid is a boolean
\* column, value an integer one).
PatchBodies == {[isPaid |-> Val(FALSE)], [value |-> 1200]}

PatchPayments(r) ==
    /\ Arrives(r)
    /\ \E id \in PaymentIds, body \in PatchBodies :
        PatchPayment(r, "patchPayment", id, body, body)
    /\ UNCHANGED << env, catalog, contracts, deletedPayments, nextId >>

\* markAsPaidMutation (client): the body it sends for the dialog's values.
Today == Date(2024, 3, 1)

MarkAsPaidBody(data) ==
    [isPaid         |-> Val(TRUE),
     paymentDate    |-> Val(Today),
     paymentMethod  |-> Val(data.paymentMethod),
     receiptNumber  |-> Val(data.receiptNumber),
     interestAmount |-> OrZero(data.interestAmount),
     latePaymentFee |-> OrZero(data.latePaymentFee)]

\* What the dialog supplies: its number fields always hold a number.
PaidInputs == [paymentMethod : {"pix"}, receiptNumber : {"r1"},
               interestAmount : {Val(0), Val(50)}, latePaymentFee : {Val(20)}]

markAsPaid(r) ==
    /\ Arrives(r)
    /\ \E id \in PaymentIds, data \in PaidInputs :
        PatchPayment(r, "markAsPaid", id, data, MarkAsPaidBody(data))
    /\ UNCHANGED << env, catalog, contracts, deletedPayments, nextId >>

(***************************************************************************)
(* DELETE /api/payments/:id: deletePayment archives the payment in the     *)
(* ledger, then removes it from the live store.                            *)
(***************************************************************************)
\* The ledger row written for a payment.
DeletedPaymentRow(payment, userId, id) ==
    [id             |-> id,
     originalId     |-> payment.id,
     contractId     |-> payment.contractId,
     dueDate        |-> payment.dueDate,
     value          |-> payment.value,
     isPaid         |-> OrFalse(payment.isPaid),
     paymentDate    |-> payment.paymentDate,
     interestAmount |-> OrZero(payment.interestAmount),
     latePaymentFee |-> OrZero(payment.latePaymentFee),
     paymentMethod  |-> payment.paymentMethod,
     receiptNumber  |-> payment.receiptNumber,
     observations   |-> payment.observations,
     deletedBy      |-> userId]

\* A route that answers 204 whatever deletePayment returned.
DeleteAnswerAlways(success) == 204
\* The route's answer to deletePayment's result.
DeleteAnswer(success) == IF success THEN 204 ELSE 404

\* The session of a request: 0 is a request without one.
Sessions == {0} \cup DOMAIN users

\* The request arrives.  Without a session it is answered 401.  MemStorage
\* runs deletePayment to its end; DatabaseStorage runs its SELECT (a throw is
\* caught inside deletePayment, which then returns false).
DeletePayments(r) ==
    /\ Arrives(r)
    /\ \E user \in Sessions, id \in PaymentIds :
        LET arrived == [NoReq EXCEPT !.op = "deletePayment", !.user = user, !.id = id]
            answered(ok) == [arrived EXCEPT !.pc = "done", !.status = DeleteAnswer(ok)]
        IN  IF user = 0
            THEN /\ req' = [req EXCEPT ![r] = [arrived EXCEPT !.pc = "done", !.status = 401]]
                 /\ UNCHANGED << payments, deletedPayments, nextId >>
            ELSE IF backend = "mem"
            THEN IF id \notin DOMAIN payments
                 THEN /\ req' = [req EXCEPT ![r] = answered(FALSE)]
                      /\ UNCHANGED << payments, deletedPayments, nextId >>
                 ELSE /\ deletedPayments' = Insert(deletedPayments,
                            DeletedPaymentRow(payments[id], user, nextId.deletedPayments))
                      /\ nextId' = Bump("deletedPayments")
                      /\ payments' = Remove(payments, id)
                      /\ req' = [req EXCEPT ![r] = answered(TRUE)]
            ELSE /\ \/ req' = [req EXCEPT ![r] = answered(FALSE)]
                    \/ /\ id \notin DOMAIN payments
                       /\ req' = [req EXCEPT ![r] = answered(FALSE)]
                    \/ /\ id \in DOMAIN payments
                       /\ req' = [req EXCEPT ![r] = [arrived EXCEPT
                                    !.pc = "archive", !.row = payments[id]]]
                 /\ UNCHANGED << payments, deletedPayments, nextId >>
    /\ UNCHANGED << env, catalog, contracts >>

\* DatabaseStorage.deletePayment, second statement: the INSERT into
\* deleted_payments of the row read by the SELECT, or its failure.
ArchivePayment(r) ==
    /\ req[r].op = "deletePayment" /\ req[r].pc = "archive"
    /\ \/ /\ req[r].row.contractId \in DOMAIN contracts
          /\ req[r].user \in DOMAIN users
          /\ deletedPayments' = Insert(deletedPayments,
                DeletedPaymentRow(req[r].row, req[r].user, nextId.deletedPayments))
          /\ nextId' = Bump("deletedPayments")
          /\ req' = [req EXCEPT ![r].pc = "remove"]
       \/ /\ req' = [req EXCEPT ![r] = Responded(r, DeleteAnswer(FALSE))]
          /\ UNCHANGED << deletedPayments, nextId >>
    /\ UNCHANGED << env, catalog, contracts, payments >>

\* A removal that takes the payment's ledger rows along with it.
RemovePaymentCascading(r) ==
    /\ req[r].op = "deletePayment" /\ req[r].pc = "remove"
    /\ payments' = Remove(payments, req[r].id)
    /\ deletedPayments' = [i \in {j \in DOMAIN deletedPayments :
                                 deletedPayments[j].originalId # req[r].id} |->
                              deletedPayments[i]]
    /\ req' = [req EXCEPT ![r] = Responded(r, DeleteAnswer(TRUE))]
    /\ UNCHANGED << env, catalog, contracts, nextId >>
\* Third statement: the DELETE from payments (a row already gone deletes
\* nothing and is no error), or its failure.
RemovePayment(r) ==
    /\ req[r].op = "deletePayment" /\ req[r].pc = "remove"
    /\ \/ /\ payments' = Remove(payments, req[r].id)
          /\ req' = [req EXCEPT ![r] = Responded(r, DeleteAnswer(TRUE))]
       \/ /\ req' = [req EXCEPT ![r] = Responded(r, DeleteAnswer(FALSE))]
          /\ UNCHANGED payments
    /\ UNCHANGED << env, catalog, contracts, deletedPayments, nextId >>

(***************************************************************************)
(* The payment lifecycle on its own: the store holds one contract of two   *)
(* months with its installments as POST /api/contracts left them.          *)
(***************************************************************************)
TwoUsers == OneUser @@ (2 :> [id |-> 2, role |-> "user", isActive |-> TRUE])

OneContract ==
    ContractRow([ownerId |-> 1, tenantId |-> 1, propertyId |-> 1,
                 startDate |-> Date(2024, 1, 15),
                 endDate |-> calculateEndDate(Date(2024, 1, 15), 2, FALSE),
                 duration |-> 2, rentValue |-> 1000, paymentDay |-> 15,
                 status |-> "ativo"], 1)

InitPayments ==
    /\ backend \in {"db", "mem"}
    /\ west = FALSE
    /\ users = TwoUsers
    /\ owners = OneOwner
    /\ tenants = OneTenant
    /\ properties = OneProperty
    /\ contracts = (1 :> OneContract)
    /\ payments = MemInstallments(OneContract, 1, FALSE)
    /\ deletedPayments = << >>
    /\ nextId = [t \in Tables |-> IF t = "deletedPayments" THEN 1
                                  ELSE IF t \in {"users", "payments"} THEN 3 ELSE 2]
    /\ req = [r \in Reqs |-> NoReq]

NextPayments ==
    \E r \in Reqs : \/ PatchPayments(r)
                    \/ markAsPaid(r)
                    \/ DeletePayments(r)
                    \/ ArchivePayment(r)
                    \/ RemovePayment(r)

SpecPayments == InitPayments /\ [][NextPayments]_vars

(***************************************************************************)
(* Owners and tenants: POST (findByDocument, then create) and PATCH        *)
(* (update).  The owners and tenants tables declare `document` unique.     *)
(***************************************************************************)
\* A lookup that sees the active rows only.
FindActiveByDocument(table, document) ==
    {row \in Rows(table) : row.document = document /\ row.isActive = Val(TRUE)}
\* findOwnerByDocument / findTenantByDocument: the rows with that document.
FindByDocument(table, document) == {row \in Rows(table) : row.document = document}

\* A column without the constraint.
NoUniqueDocument(table, document, id) == TRUE
\* The unique constraint on `document`, as PostgreSQL checks it when row `id`
\* is written (0: a new row): no other row has the document.
UniqueDocument(table, document, id) ==
    \A row \in Rows(table) : row.document = document => row.id = id

\* A structured address is a record of the keys of addressSchema that it has
\* (street is required, complement optional).  Its text is what
\* JSON.stringify writes: the "key":"value" pairs in the order of the keys.
AddressKeys == << "street", "complement" >>
Addresses == {[street |-> "s1"], [street |-> "s2", complement |-> "c2"]}

\* typeof x === 'string' and typeof x === 'object' of an address value.
IsString(x) == DOMAIN x = {"json"}
IsObject(x) == ~IsString(x)

JSONstringify(object) ==
    LET keys == SelectSeq(AddressKeys, LAMBDA k : k \in DOMAIN object)
    IN  [json |-> [i \in DOMAIN keys |-> << keys[i], object[keys[i]] >>]]

JSONparse(text) ==
    LET pairs == {text.json[i] : i \in DOMAIN text.json}
    IN  [k \in {pair[1] : pair \in pairs} |->
            (CHOOSE pair \in pairs : pair[1] = k)[2]]

\* typeof x === 'string' ? JSON.parse(x) : x
Parsed(x) == IF IsString(x) THEN JSONparse(x) ELSE x
\* typeof x === 'object' ? JSON.stringify(x) : x
Stringified(x) == IF IsObject(x) THEN JSONstringify(x) ELSE x

\* DatabaseStorage.createOwner inserts name, document, email, phone and
\* the address as text; is_active takes the column's default.
DbOwnerRow(data, id) ==
    [id |-> id, name |-> data.name, document |-> data.document,
     address |-> JSONstringify(data.address), isActive |-> Val(TRUE)]

\* MemStorage.createOwner spreads the body into the row and stores the
\* address as text.
MemOwnerRow(data, id) ==
    [id |-> id, name |-> data.name, document |-> data.document,
     address |-> Stringified(Parsed(data.address)),
     isActive |-> Get(data, "isActive")]

\* What createOwner returns of the row it stored: the address as an object.
CreatedOwner(row) == [row EXCEPT !.address = Parsed(@)]

\* updateOwner: the keys of the body replace the row's; an address of the
\* body is stored as text.
UpdatedOwner(owner, body) ==
    [f \in DOMAIN owner |->
        IF f \notin DOMAIN body THEN owner[f]
        ELSE IF f = "address" THEN Stringified(body[f])
        ELSE body[f]]

\* The document a row has once a body is applied to it.
DocumentAfter(row, body) == IF "document" \in DOMAIN body THEN body.document ELSE row.document

\* Bodies of POST (they pass ownerValidationSchema / tenantValidationSchema)
\* and of PATCH, and the ids PATCH names (3: no such row).
Documents == {"d1", "d2", "d3"}
PartyInputs == [name : {"n3"}, document : Documents, address : Addresses]
PartyPatches == {[document |-> "d1"], [document |-> "d3"], [name |-> "n4"]}
PartyIds == {1, 2, 3}

\* POST /api/owners arrives and looks the document up.
PostOwners(r) ==
    /\ Arrives(r)
    /\ \E data \in PartyInputs :
        LET arrived == [NoReq EXCEPT !.op = "postOwner", !.data = data]
            existingOwner == FindByDocument(owners, data.document)
            answered(code) == [req EXCEPT ![r] = [arrived EXCEPT !.pc = "done", !.status = code]]
        IN  IF backend = "mem"
            THEN IF existingOwner # {}
                 THEN req' = answered(400) /\ UNCHANGED << owners, nextId >>
                 ELSE /\ owners' = Insert(owners, MemOwnerRow(data, nextId.owners))
                      /\ nextId' = Bump("owners")
                      /\ req' = [req EXCEPT ![r] = [arrived EXCEPT
                            !.pc = "done", !.status = 201,
                            !.row = CreatedOwner(MemOwnerRow(data, nextId.owners))]]
            ELSE /\ \/ req' = answered(500)          \* the SELECT throws
                    \/ existingOwner # {} /\ req' = answered(400)
                    \/ /\ existingOwner = {}
                       /\ req' = [req EXCEPT ![r] = [arrived EXCEPT !.pc = "create"]]
                 /\ UNCHANGED << owners, nextId >>
    /\ UNCHANGED << env, users, tenants, properties, leases >>

\* DatabaseStorage.createOwner: the INSERT.  A document that a row already
\* has violates the constraint (the sequence has advanced by then); the
\* error is rethrown and the route answers 500.
createOwner(r) ==
    /\ req[r].op = "postOwner" /\ req[r].pc = "create"
    /\ \/ /\ UniqueDocument(owners, req[r].data.document, 0)
          /\ owners' = Insert(owners, DbOwnerRow(req[r].data, nextId.owners))
          /\ nextId' = Bump("owners")
          /\ req' = [req EXCEPT ![r] = [Responded(r, 201) EXCEPT
                        !.row = CreatedOwner(DbOwnerRow(req[r].data, nextId.owners))]]
       \/ /\ ~UniqueDocument(owners, req[r].data.document, 0)
          /\ nextId' = Bump("owners")
          /\ req' = [req EXCEPT ![r] = Responded(r, 500)]
          /\ UNCHANGED owners
       \/ /\ req' = [req EXCEPT ![r] = Responded(r, 500)]
          /\ UNCHANGED << owners, nextId >>
    /\ UNCHANGED << env, users, tenants, properties, leases >>

\* PATCH /api/owners/:id arrives; updateOwner reads the row first.
PatchOwners(r) ==
    /\ Arrives(r)
    /\ \E id \in PartyIds, body \in PartyPatches :
        LET arrived == [NoReq EXCEPT !.op = "patchOwner", !.id = id, !.data = body]
            answered(code) == [req EXCEPT ![r] = [arrived EXCEPT !.pc = "done", !.status = code]]
        IN  IF backend = "mem"
            THEN IF id \notin DOMAIN owners
                 THEN req' = answered(404) /\ UNCHANGED owners
                 ELSE /\ owners' = [owners EXCEPT ![id] = UpdatedOwner(@, body)]
                      /\ req' = answered(200)
            ELSE /\ \/ req' = answered(500)          \* the SELECT throws
                    \/ id \notin DOMAIN owners /\ req' = answered(404)
                    \/ /\ id \in DOMAIN owners
                       /\ req' = [req EXCEPT ![r] = [arrived EXCEPT !.pc = "update"]]
                 /\ UNCHANGED owners
    /\ UNCHANGED << env, users, tenants, properties, leases, nextId >>

\* DatabaseStorage.updateOwner: the UPDATE ... RETURNING.
updateOwner(r) ==
    /\ req[r].op = "patchOwner" /\ req[r].pc = "update"
    /\ LET id == req[r].id
           body == req[r].data
       IN  \/ /\ id \notin DOMAIN owners
              /\ req' = [req EXCEPT ![r] = Responded(r, 404)]
              /\ UNCHANGED owners
           \/ /\ id \in DOMAIN owners
              /\ UniqueDocument(owners, DocumentAfter(owners[id], body), id)
              /\ owners' = [owners EXCEPT ![id] = UpdatedOwner(@, body)]
              /\ req' = [req EXCEPT ![r] = Responded(r, 200)]
           \/ /\ id \in DOMAIN owners
              /\ ~UniqueDocument(owners, DocumentAfter(owners[id], body), id)
              /\ req' = [req EXCEPT ![r] = Responded(r, 500)]
              /\ UNCHANGED owners
           \/ /\ req' = [req EXCEPT ![r] = Responded(r, 500)]
              /\ UNCHANGED owners
    /\ UNCHANGED << env, users, tenants, properties, leases, nextId >>

\* DatabaseStorage.createTenant inserts name, document, rg, email, phone,
\* the address as text and guarantor; is_active takes the column's default.
DbTenantRow(data, id) ==
    [id |-> id, name |-> data.name, document |-> data.document,
     address |-> JSONstringify(data.address), isActive |-> Val(TRUE)]

\* MemStorage.createTenant spreads the body into the row and stores the
\* address as text.
MemTenantRow(data, id) ==
    [id |-> id, name |-> data.name, document |-> data.document,
     address |-> Stringified(Parsed(data.address)),
     isActive |-> Get(data, "isActive")]

\* What createTenant returns of the row it stored: the address as an object.
CreatedTenant(row) == [row EXCEPT !.address = Parsed(@)]

\* updateTenant: the keys of the body replace the row's; an address of the
\* body is stored as text.
UpdatedTenant(tenant, body) ==
    [f \in DOMAIN tenant |->
        IF f \notin DOMAIN body THEN tenant[f]
        ELSE IF f = "address" THEN Stringified(body[f])
        ELSE body[f]]

\* POST /api/tenants arrives and looks the document up.
PostTenants(r) ==
    /\ Arrives(r)
    /\ \E data \in PartyInputs :
        LET arrived == [NoReq EXCEPT !.op = "postTenant", !.data = data]
            existingTenant == FindByDocument(tenants, data.document)
            answered(code) == [req EXCEPT ![r] = [arrived EXCEPT !.pc = "done", !.status = code]]
        IN  IF backend = "mem"
            THEN IF existingTenant # {}
                 THEN req' = answered(400) /\ UNCHANGED << tenants, nextId >>
                 ELSE /\ tenants' = Insert(tenants, MemTenantRow(data, nextId.tenants))
                      /\ nextId' = Bump("tenants")
                      /\ req' = [req EXCEPT ![r] = [arrived EXCEPT
                            !.pc = "done", !.status = 201,
                            !.row = CreatedTenant(MemTenantRow(data, nextId.tenants))]]
            ELSE /\ \/ req' = answered(500)          \* the SELECT throws
                    \/ existingTenant # {} /\ req' = answered(400)
                    \/ /\ existingTenant = {}
                       /\ req' = [req EXCEPT ![r] = [arrived EXCEPT !.pc = "create"]]
                 /\ UNCHANGED << tenants, nextId >>
    /\ UNCHANGED << env, users, owners, properties, leases >>

\* DatabaseStorage.createTenant: the INSERT.  A document that a row already
\* has violates the constraint (the sequence has advanced by then); the
\* error is rethrown and the route answers 500.
createTenant(r) ==
    /\ req[r].op = "postTenant" /\ req[r].pc = "create"
    /\ \/ /\ UniqueDocument(tenants, req[r].data.document, 0)
          /\ tenants' = Insert(tenants, DbTenantRow(req[r].data, nextId.tenants))
          /\ nextId' = Bump("tenants")
          /\ req' = [req EXCEPT ![r] = [Responded(r, 201) EXCEPT
                        !.row = CreatedTenant(DbTenantRow(req[r].data, nextId.tenants))]]
       \/ /\ ~UniqueDocument(tenants, req[r].data.document, 0)
          /\ nextId' = Bump("tenants")
          /\ req' = [req EXCEPT ![r] = Responded(r, 500)]
          /\ UNCHANGED tenants
       \/ /\ req' = [req EXCEPT ![r] = Responded(r, 500)]
          /\ UNCHANGED << tenants, nextId >>
    /\ UNCHANGED << env, users, owners, properties, leases >>

\* PATCH /api/tenants/:id arrives; updateTenant reads the row first.
PatchTenants(r) ==
    /\ Arrives(r)
    /\ \E id \in PartyIds, body \in PartyPatches :
        LET arrived == [NoReq EXCEPT !.op = "patchTenant", !.id = id, !.data = body]
            answered(code) == [req EXCEPT ![r] = [arrived EXCEPT !.pc = "done", !.status = code]]
        IN  IF backend = "mem"
            THEN IF id \notin DOMAIN tenants
                 THEN req' = answered(404) /\ UNCHANGED tenants
                 ELSE /\ tenants' = [tenants EXCEPT ![id] = UpdatedTenant(@, body)]
                      /\ req' = answered(200)
            ELSE /\ \/ req' = answered(500)          \* the SELECT throws
                    \/ id \notin DOMAIN tenants /\ req' = answered(404)
                    \/ /\ id \in DOMAIN tenants
                       /\ req' = [req EXCEPT ![r] = [arrived EXCEPT !.pc = "update"]]
                 /\ UNCHANGED tenants
    /\ UNCHANGED << env, users, owners, properties, leases, nextId >>

\* DatabaseStorage.updateTenant: the UPDATE ... RETURNING.
updateTenant(r) ==
    /\ req[r].op = "patchTenant" /\ req[r].pc = "update"
    /\ LET id == req[r].id
           body == req[r].data
       IN  \/ /\ id \notin DOMAIN tenants
              /\ req' = [req EXCEPT ![r] = Responded(r, 404)]
              /\ UNCHANGED tenants
           \/ /\ id \in DOMAIN tenants
              /\ UniqueDocument(tenants, DocumentAfter(tenants[id], body), id)
              /\ tenants' = [tenants EXCEPT ![id] = UpdatedTenant(@, body)]
              /\ req' = [req EXCEPT ![r] = Responded(r, 200)]
           \/ /\ id \in DOMAIN tenants
              /\ ~UniqueDocument(tenants, DocumentAfter(tenants[id], body), id)
              /\ req' = [req EXCEPT ![r] = Responded(r, 500)]
              /\ UNCHANGED tenants
           \/ /\ req' = [req EXCEPT ![r] = Responded(r, 500)]
              /\ UNCHANGED tenants
    /\ UNCHANGED << env, users, owners, properties, leases, nextId >>

(***************************************************************************)
(* The registry on its own: two owners and two tenants are stored, the     *)
(* first of each active or deactivated.                                    *)
(***************************************************************************)
TwoOwners(active) ==
    (1 :> [id |-> 1, name |-> "n1", document |-> "d1",
           address |-> JSONstringify([street |-> "s1"]), isActive |-> active]) @@
    (2 :> [id |-> 2, name |-> "n2", document |-> "d2",
           address |-> JSONstringify([street |-> "s1"]), isActive |-> Val(TRUE)])

TwoTenants(active) ==
    (1 :> [id |-> 1, name |-> "n1", document |-> "d1",
           address |-> JSONstringify([street |-> "s1"]), isActive |-> active]) @@
    (2 :> [id |-> 2, name |-> "n2", document |-> "d2",
           address |-> JSONstringify([street |-> "s1"]), isActive |-> Val(TRUE)])

InitOwners ==
    /\ backend \in {"db", "mem"}
    /\ west = FALSE
    /\ users = OneUser
    /\ \E active \in {Val(TRUE), Val(FALSE)} :
        owners = TwoOwners(active) /\ tenants = TwoTenants(active)
    /\ properties = OneProperty
    /\ contracts = << >>
    /\ payments = << >>
    /\ deletedPayments = << >>
    /\ nextId = [t \in Tables |-> IF t \in {"owners", "tenants"} THEN 3
                                  ELSE IF t \in {"users", "properties"} THEN 2 ELSE 1]
    /\ req = [r \in Reqs |-> NoReq]

NextOwners ==
    \E r \in Reqs : \/ PostOwners(r)
                    \/ createOwner(r)
                    \/ PatchOwners(r)
                    \/ updateOwner(r)
                    \/ PostTenants(r)
                    \/ createTenant(r)
                    \/ PatchTenants(r)
                    \/ updateTenant(r)

SpecOwners == InitOwners /\ [][NextOwners]_vars

\* The server as it is wired: storage is a DatabaseStorage.
InitOwnersDb == InitOwners /\ backend = "db"

SpecOwnersDb == InitOwnersDb /\ [][NextOwners]_vars

(***************************************************************************)
(* GET /api/dashboard/stats: getDashboardStats.  The clock reads the day   *)
(* Today (UTC); a stored date converted with new Date(...) is that day's   *)
(* UTC midnight, which is before the clock's instant unless the clock      *)
(* reads exactly midnight.                                                 *)
(***************************************************************************)
\* thirtyDaysFromNow: setDate(getDate() + 30), the same time of day.
ThirtyDaysFromNow == MakeDay(Today.y, Today.m - 1, Today.d + 30)

\* new Date(date) < today, and new Date(date) > today, for the instant today.
BeforeNow(date, midnight) == DateLT(date, Today) \/ (date = Today /\ ~midnight)
AfterNow(date) == DateLT(Today, date)

\* MemStorage.getDashboardStats over the contracts cs and the payments ps.
MemDashboardStats(cs, ps, midnight) ==
    [expiredContracts  |-> Cardinality({c \in cs :
                              BeforeNow(c.endDate, midnight) /\ c.status # "encerrado"}),
     expiringContracts |-> Cardinality({c \in cs :
                              /\ ~BeforeNow(c.endDate, midnight)
                              /\ DateLE(c.endDate, ThirtyDaysFromNow)
                              /\ c.status # "encerrado"}),
     totalContracts    |-> Cardinality({c \in cs : c.status = "ativo"}),
     pendingPayments   |-> Cardinality({p \in ps :
                              p.isPaid \in {Null, Val(FALSE)} /\ AfterNow(p.dueDate)}),
     overduePayments   |-> Cardinality({p \in ps :
                              p.isPaid \in {Null, Val(FALSE)} /\ ~AfterNow(p.dueDate)})]

\* DatabaseStorage.getDashboardStats: five SELECTs comparing date columns
\* with the clock's YYYY-MM-DD.
DbDashboardStats(cs, ps) ==
    [expiredContracts  |-> Cardinality({c \in cs :
                              c.status = "ativo" /\ DateLT(c.endDate, Today)}),
     expiringContracts |-> Cardinality({c \in cs :
                              /\ c.status = "ativo"
                              /\ DateLE(Today, c.endDate)
                              /\ DateLE(c.endDate, ThirtyDaysFromNow)}),
     totalContracts    |-> Cardinality(cs),
     pendingPayments   |-> Cardinality({p \in ps :
                              p.isPaid = Val(FALSE) /\ DateLE(Today, p.dueDate)}),
     overduePayments   |-> Cardinality({p \in ps :
                              p.isPaid = Val(FALSE) /\ DateLT(p.dueDate, Today)})]

\* The route: the statistics, or 500 when a SELECT throws.  No request of
\* SpecStats writes, so the five SELECTs read one snapshot and are one step.
GetDashboardStats(r) ==
    /\ Arrives(r)
    /\ LET arrived == [NoReq EXCEPT !.op = "getDashboardStats"]
           answered(stats) == [arrived EXCEPT !.pc = "done", !.status = 200, !.row = stats]
       IN  IF backend = "mem"
           THEN \E midnight \in BOOLEAN :
                   req' = [req EXCEPT ![r] =
                             answered(MemDashboardStats(Rows(contracts), Rows(payments), midnight))]
           ELSE \/ req' = [req EXCEPT ![r] =
                             answered(DbDashboardStats(Rows(contracts), Rows(payments)))]
                \/ req' = [req EXCEPT ![r] = [arrived EXCEPT !.pc = "done", !.status = 500]]
    /\ UNCHANGED << env, catalog, leases, nextId >>

\* Snapshots: two contracts and two payments around the clock's day; the
\* first payment's isPaid may be unset (the column is nullable).
Statuses == {"ativo", "pendente", "encerrado"}
EndDates == {MakeDay(Today.y, Today.m - 1, Today.d + k) : k \in {-1, 0, 30, 31}}
DueDates == {MakeDay(Today.y, Today.m - 1, Today.d + k) : k \in {-1, 0, 1}}

StatsContract(id, status, endDate) ==
    [OneContract EXCEPT !.id = id, !.status = status, !.endDate = endDate]

StatsPayment(id, isPaid, dueDate) ==
    [MemInstallments(OneContract, 1, FALSE)[1] EXCEPT
        !.id = id, !.isPaid = isPaid, !.dueDate = dueDate]

InitStats ==
    /\ backend \in {"db", "mem"}
    /\ west = FALSE
    /\ users = OneUser
    /\ owners = OneOwner
    /\ tenants = OneTenant
    /\ properties = OneProperty
    /\ \E s1, s2 \in Statuses, e1 \in EndDates :
        contracts = (1 :> StatsContract(1, s1, e1)) @@
                    (2 :> StatsContract(2, s2, MakeDay(Today.y, Today.m - 1, Today.d - 1)))
    /\ \E b1 \in {Val(TRUE), Val(FALSE), Null}, b2 \in {Val(TRUE), Val(FALSE)},
          d1 \in DueDates :
        payments = (1 :> StatsPayment(1, b1, d1)) @@ (2 :> StatsPayment(2, b2, Today))
    /\ deletedPayments = << >>
    /\ nextId = [t \in Tables |-> IF t \in {"contracts", "payments"} THEN 3
                                  ELSE IF t = "deletedPayments" THEN 1 ELSE 2]
    /\ req = [r \in Reqs |-> NoReq]

NextStats == \E r \in Reqs : GetDashboardStats(r)

SpecStats == InitStats /\ [][NextStats]_vars

\* The statistics of the server as it is wired (DatabaseStorage).
InitStatsDb == InitStats /\ backend = "db"

SpecStatsDb == InitStatsDb /\ [][NextStats]_vars

(***************************************************************************)
(* DELETE of an owner, a tenant, a property or a contract: one statement.  *)
(* MemStorage answers what Map.delete returns.  DatabaseStorage returns    *)
(* true unless the DELETE throws, which a foreign key onto the row makes   *)
(* it do (the schema declares no cascade).                                 *)
(***************************************************************************)
\* The rows that reference a row, by the schema's foreign keys.
OwnerReferenced(id) ==
    \/ \E p \in Rows(properties) : p.ownerId = id
    \/ \E c \in Rows(contracts) : c.ownerId = id
TenantReferenced(id) == \E c \in Rows(contracts) : c.tenantId = id
PropertyReferenced(id) == \E c \in Rows(contracts) : c.propertyId = id
ContractReferenced(id) ==
    \/ \E p \in Rows(payments) : p.contractId = id
    \/ \E d \in Rows(deletedPayments) : d.contractId = id

\* What a delete of row `id` of a table leaves and returns:
\* MemStorage (Map.delete), and DatabaseStorage when the statement does not
\* throw (a DELETE that matches no row is no error).
MemDeleted(table, id) == [table |-> Remove(table, id), success |-> id \in DOMAIN table]
DbDeleted(table, id) == [table |-> Remove(table, id), success |-> TRUE]

\* The outcomes of a delete: MemStorage has one; DatabaseStorage removes the
\* row unless it is referenced, or throws and returns false.
Deleted(table, id, referenced) ==
    IF backend = "mem" THEN {MemDeleted(table, id)}
    ELSE (IF referenced THEN {} ELSE {DbDeleted(table, id)})
            \cup {[table |-> table, success |-> FALSE]}

\* The ids the requests name (3: no such row).
DeleteIds == {1, 2, 3}

DeleteOwners(r) ==
    /\ Arrives(r)
    /\ \E id \in DeleteIds : \E out \in Deleted(owners, id, OwnerReferenced(id)) :
        /\ owners' = out.table
        /\ req' = [req EXCEPT ![r] = [NoReq EXCEPT !.op = "deleteOwner", !.id = id,
                        !.pc = "done", !.status = DeleteAnswer(out.success)]]
    /\ UNCHANGED << env, users, tenants, properties, leases, nextId >>

DeleteTenants(r) ==
    /\ Arrives(r)
    /\ \E id \in DeleteIds : \E out \in Deleted(tenants, id, TenantReferenced(id)) :
        /\ tenants' = out.table
        /\ req' = [req EXCEPT ![r] = [NoReq EXCEPT !.op = "deleteTenant", !.id = id,
                        !.pc = "done", !.status = DeleteAnswer(out.success)]]
    /\ UNCHANGED << env, users, owners, properties, leases, nextId >>

DeleteProperties(r) ==
    /\ Arrives(r)
    /\ \E id \in DeleteIds : \E out \in Deleted(properties, id, PropertyReferenced(id)) :
        /\ properties' = out.table
        /\ req' = [req EXCEPT ![r] = [NoReq EXCEPT !.op = "deleteProperty", !.id = id,
                        !.pc = "done", !.status = DeleteAnswer(out.success)]]
    /\ UNCHANGED << env, users, owners, tenants, leases, nextId >>

DeleteContracts(r) ==
    /\ Arrives(r)
    /\ \E id \in DeleteIds : \E out \in Deleted(contracts, id, ContractReferenced(id)) :
        /\ contracts' = out.table
        /\ req' = [req EXCEPT ![r] = [NoReq EXCEPT !.op = "deleteContract", !.id = id,
                        !.pc = "done", !.status = DeleteAnswer(out.success)]]
    /\ UNCHANGED << env, catalog, payments, deletedPayments, nextId >>

\* The store: owner 1 has both properties and, with tenant 1 and property 1,
\* the first contract, which has its two installments; owner 2, tenant 2,
\* property 2 and contract 2 (of owner 1, tenant 1, property 1, no
\* installment left) are referenced by nothing.
TwoProperties == OneProperty @@ (2 :> [id |-> 2, ownerId |-> 1, isActive |-> TRUE])
TwoContracts == (1 :> OneContract) @@ (2 :> [OneContract EXCEPT !.id = 2])

InitDeletes ==
    /\ backend \in {"db", "mem"}
    /\ west = FALSE
    /\ users = OneUser
    /\ owners = TwoOwners(Val(TRUE))
    /\ tenants = TwoTenants(Val(TRUE))
    /\ properties = TwoProperties
    /\ contracts = TwoContracts
    /\ payments = MemInstallments(OneContract, 1, FALSE)
    /\ deletedPayments = << >>
    /\ nextId = [t \in Tables |-> IF t = "deletedPayments" THEN 1
                                  ELSE IF t = "users" THEN 2 ELSE 3]
    /\ req = [r \in Reqs |-> NoReq]

NextDeletes ==
    \E r \in Reqs : \/ DeleteOwners(r)
                    \/ DeleteTenants(r)
                    \/ DeleteProperties(r)
                    \/ DeleteContracts(r)

SpecDeletes == InitDeletes /\ [][NextDeletes]_vars

(***************************************************************************)
(* POST /api/payments, next to DELETE /api/contracts/:id: the payments and *)
(* the contracts they name.                                                *)
(***************************************************************************)
\* The bodies of POST /api/payments (contract 3: no such contract).
PaymentInputs == [contractId : {1, 2, 3}, dueDate : {Date(2024, 3, 15)}, value : {1000}]

\* POST /api/payments: createPayment is its one statement.  MemStorage
\* stores the body under a fresh id.  With DatabaseStorage a contract that
\* does not exist violates the foreign key (the sequence has advanced by
\* then); createPayment rethrows and the route answers 500.
PostPayments(r) ==
    /\ Arrives(r)
    /\ \E data \in PaymentInputs :
        LET arrived == [NoReq EXCEPT !.op = "postPayment", !.data = data]
            answered(code, row) ==
                [req EXCEPT ![r] = [arrived EXCEPT !.pc = "done", !.status = code,
                                                   !.row = row]]
            memRow == PaymentRow(MemPaymentValues(data), nextId.payments)
            dbRow == PaymentRow(DbPaymentValues(data), nextId.payments)
        IN  IF backend = "mem"
            THEN /\ payments' = Insert(payments, memRow)
                 /\ nextId' = Bump("payments")
                 /\ req' = answered(201, memRow)
            ELSE \/ /\ data.contractId \in DOMAIN contracts
                    /\ payments' = Insert(payments, dbRow)
                    /\ nextId' = Bump("payments")
                    /\ req' = answered(201, dbRow)
                 \/ /\ data.contractId \notin DOMAIN contracts
                    /\ nextId' = Bump("payments")
                    /\ req' = answered(500, << >>)
                    /\ UNCHANGED payments
                 \/ /\ req' = answered(500, << >>)
                    /\ UNCHANGED << payments, nextId >>
    /\ UNCHANGED << env, catalog, contracts, deletedPayments >>

NextReferences ==
    \E r \in Reqs : \/ DeleteContracts(r)
                    \/ PostPayments(r)

SpecReferences == InitDeletes /\ [][NextReferences]_vars

(***************************************************************************)
(* /api/admin/users (server/auth.ts), over DatabaseStorage.  On every      *)
(* request passport loads the session's user from storage                  *)
(* (deserializeUser); the gate mounted on /api/admin/* runs next, before   *)
(* any admin route.  Sessions live in the process (MemoryStore): a request *)
(* carries the id of the user who logged in, or none.                      *)
(***************************************************************************)
\* passport.deserializeUser: the outcomes of loading the user of a session
\* (0: no session, nothing is read).  A user row that is gone leaves the
\* request unauthenticated; a read that throws fails the request.
Deserialized(session) ==
    IF session = 0 THEN {[error |-> FALSE, user |-> Null]}
    ELSE {[error |-> FALSE,
           user |-> IF session \in DOMAIN users THEN Val(users[session]) ELSE Null],
          [error |-> TRUE, user |-> Null]}

\* A gate that asks for a session only.
AdminGateSessionOnly(user) == IF user = Null THEN 401 ELSE 0

\* The middleware of /api/admin/*: the status it answers, 0 when it calls
\* next().  req.isAuthenticated() is true when passport has set req.user.
AdminGate(user) ==
    IF user = Null THEN 401
    ELSE IF user[1].role # "admin" THEN 403
    ELSE 0

\* A request arrives on an admin route: deserialization, then the gate, then
\* the handler up to its first awaited statement (`entered`).
Gated(r, arrived, entered) ==
    \E out \in Deserialized(arrived.user) :
        req' = [req EXCEPT ![r] =
                  IF out.error THEN [arrived EXCEPT !.pc = "done", !.status = 500]
                  ELSE IF AdminGate(out.user) # 0
                       THEN [arrived EXCEPT !.pc = "done", !.status = AdminGate(out.user)]
                       ELSE entered]

\* The sessions requests come with (0: none), the ids they name (3: a row
\* only a creation adds) and the bodies they send.  The route hands req.body
\* to createUser unparsed, so a body may carry keys of its own, such as id.
AdminSessions == {0, 1, 2}
UserIds == {1, 2, 3}
UserInputs ==
    {[username |-> "u2", role |-> "user"],
     [username |-> "u3", role |-> "admin"],
     [username |-> "u4", role |-> "user", id |-> 2]}
UserPatches == {[role |-> "admin"], [role |-> "user"]}

\* users.username is unique.
UniqueUsername(username) == \A u \in Rows(users) : u.username # username

\* The foreign key onto users: deleted_payments.deleted_by.
UserReferenced(id) == \E d \in Rows(deletedPayments) : d.deletedBy = id

\* DatabaseStorage.createUser: the body is spread into the inserted values,
\* so the row has the id of the body when it has one, and the next value of
\* the sequence otherwise.
UserRow(data, serial) ==
    [id |-> IF "id" \in DOMAIN data THEN data.id ELSE serial,
     username |-> data.username, role |-> data.role, isActive |-> TRUE]

\* The sequence after an insert: a row with an id of its own does not draw
\* from it.
UsersSequence(data) == IF "id" \in DOMAIN data THEN nextId ELSE Bump("users")

\* updateUser: the body's columns set on the row.
UpdatedUser(user, data) ==
    [f \in DOMAIN user |-> IF f \in DOMAIN data THEN data[f] ELSE user[f]]

\* GET /api/admin/users.
GetAdminUsers(r) ==
    /\ Arrives(r)
    /\ \E session \in AdminSessions :
        LET arrived == [NoReq EXCEPT !.op = "getAdminUsers", !.user = session]
        IN  Gated(r, arrived, [arrived EXCEPT !.pc = "getUsers"])
    /\ UNCHANGED << env, catalog, leases, nextId >>

getUsers(r) ==
    /\ req[r].op = "getAdminUsers" /\ req[r].pc = "getUsers"
    /\ \/ req' = [req EXCEPT ![r] = Responded(r, 200)]
       \/ req' = [req EXCEPT ![r] = Responded(r, 500)]
    /\ UNCHANGED << env, catalog, leases, nextId >>

\* POST /api/admin/users: the username is looked up, then the row inserted
\* (hashPassword, awaited in between, touches no state).
PostAdminUsers(r) ==
    /\ Arrives(r)
    /\ \E session \in AdminSessions, data \in UserInputs :
        LET arrived == [NoReq EXCEPT !.op = "postAdminUser", !.user = session,
                                     !.data = data]
        IN  Gated(r, arrived, [arrived EXCEPT !.pc = "getUserByUsername"])
    /\ UNCHANGED << env, catalog, leases, nextId >>

getUserByUsername(r) ==
    /\ req[r].op = "postAdminUser" /\ req[r].pc = "getUserByUsername"
    /\ \/ req' = [req EXCEPT ![r] = Responded(r, 500)]
       \/ /\ ~UniqueUsername(req[r].data.username)
          /\ req' = [req EXCEPT ![r] = Responded(r, 400)]
       \/ /\ UniqueUsername(req[r].data.username)
          /\ req' = [req EXCEPT ![r].pc = "createUser"]
    /\ UNCHANGED << env, catalog, leases, nextId >>

\* DatabaseStorage.createUser: the INSERT.  A username or an id that a row
\* already has violates a constraint (the sequence has advanced by then if
\* the id was drawn from it).
createUser(r) ==
    /\ req[r].op = "postAdminUser" /\ req[r].pc = "createUser"
    /\ LET user == UserRow(req[r].data, nextId.users)
           accepted == UniqueUsername(user.username) /\ user.id \notin DOMAIN users
       IN
       \/ /\ accepted
          /\ users' = Insert(users, user)
          /\ nextId' = UsersSequence(req[r].data)
          /\ req' = [req EXCEPT ![r] = [Responded(r, 201) EXCEPT !.row = user]]
       \/ /\ ~accepted
          /\ nextId' = UsersSequence(req[r].data)
          /\ req' = [req EXCEPT ![r] = Responded(r, 500)]
          /\ UNCHANGED users
       \/ /\ req' = [req EXCEPT ![r] = Responded(r, 500)]
          /\ UNCHANGED << users, nextId >>
    /\ UNCHANGED << env, owners, tenants, properties, leases >>

\* PUT /api/admin/users/:id: the row is read, then updated.
PutAdminUsers(r) ==
    /\ Arrives(r)
    /\ \E session \in AdminSessions, id \in UserIds, data \in UserPatches :
        LET arrived == [NoReq EXCEPT !.op = "putAdminUser", !.user = session,
                                     !.id = id, !.data = data]
        IN  Gated(r, arrived, [arrived EXCEPT !.pc = "getUser"])
    /\ UNCHANGED << env, catalog, leases, nextId >>

getUser(r) ==
    /\ req[r].op = "putAdminUser" /\ req[r].pc = "getUser"
    /\ \/ req' = [req EXCEPT ![r] = Responded(r, 500)]
       \/ /\ req[r].id \notin DOMAIN users
          /\ req' = [req EXCEPT ![r] = Responded(r, 404)]
       \/ /\ req[r].id \in DOMAIN users
          /\ req' = [req EXCEPT ![r].pc = "updateUser"]
    /\ UNCHANGED << env, catalog, leases, nextId >>

\* DatabaseStorage.updateUser: the UPDATE; res.json answers 200 also when no
\* row was left to update.
updateUser(r) ==
    /\ req[r].op = "putAdminUser" /\ req[r].pc = "updateUser"
    /\ \/ /\ req' = [req EXCEPT ![r] = Responded(r, 500)]
          /\ UNCHANGED users
       \/ /\ req' = [req EXCEPT ![r] = Responded(r, 200)]
          /\ users' = IF req[r].id \in DOMAIN users
                      THEN [users EXCEPT ![req[r].id] = UpdatedUser(@, req[r].data)]
                      ELSE users
    /\ UNCHANGED << env, owners, tenants, properties, leases, nextId >>

\* DELETE /api/admin/users/:id: one's own id is refused before any statement.
DeleteAdminUsers(r) ==
    /\ Arrives(r)
    /\ \E session \in AdminSessions, id \in UserIds :
        LET arrived == [NoReq EXCEPT !.op = "deleteAdminUser", !.user = session,
                                     !.id = id]
        IN  Gated(r, arrived, IF session = id
                              THEN [arrived EXCEPT !.pc = "done", !.status = 400]
                              ELSE [arrived EXCEPT !.pc = "deleteUser"])
    /\ UNCHANGED << env, catalog, leases, nextId >>

\* DatabaseStorage.deleteUser: the DELETE; rowCount tells whether a row went.
deleteUser(r) ==
    /\ req[r].op = "deleteAdminUser" /\ req[r].pc = "deleteUser"
    /\ \/ /\ req' = [req EXCEPT ![r] = Responded(r, 500)]
          /\ UNCHANGED users
       \/ /\ ~UserReferenced(req[r].id)
          /\ users' = Remove(users, req[r].id)
          /\ req' = [req EXCEPT ![r] =
                        Responded(r, IF req[r].id \in DOMAIN users THEN 204 ELSE 404)]
    /\ UNCHANGED << env, owners, tenants, properties, leases, nextId >>

\* The store: an administrator and a plain user, nothing else.
AdminUsers ==
    (1 :> [id |-> 1, username |-> "u1", role |-> "admin", isActive |-> TRUE]) @@
    (2 :> [id |-> 2, username |-> "u2", role |-> "user", isActive |-> TRUE])

InitAdmin ==
    /\ backend = "db"
    /\ west = FALSE
    /\ users = AdminUsers
    /\ owners = << >>
    /\ tenants = << >>
    /\ properties = << >>
    /\ contracts = << >>
    /\ payments = << >>
    /\ deletedPayments = << >>
    /\ nextId = [t \in Tables |-> IF t = "users" THEN 3 ELSE 1]
    /\ req = [r \in Reqs |-> NoReq]

NextAdmin ==
    \E r \in Reqs : \/ GetAdminUsers(r)
                    \/ getUsers(r)
                    \/ PostAdminUsers(r)
                    \/ getUserByUsername(r)
                    \/ createUser(r)
                    \/ PutAdminUsers(r)
                    \/ getUser(r)
                    \/ updateUser(r)
                    \/ DeleteAdminUsers(r)
                    \/ deleteUser(r)

SpecAdmin == InitAdmin /\ [][NextAdmin]_vars

(***************************************************************************)
(* PATCH /api/contracts/:id: the body, parsed against the partial insert   *)
(* schema, goes to updateContract as it is; one statement.                 *)
(***************************************************************************)
\* updateContract: the body's columns set on the row (the spread of
\* MemStorage, the SET of DatabaseStorage).
UpdatedContract(contract, data) ==
    [f \in DOMAIN contract |-> IF f \in DOMAIN data THEN data[f] ELSE contract[f]]

\* The ids the requests name (2: a row only a creation adds) and the bodies
\* they send: a new duration, a new start date, a new status, and a new
\* duration together with the end date that goes with it.
ContractIds == {1, 2}
ContractPatches ==
    {[duration |-> 1],
     [startDate |-> Date(2024, 2, 15)],
     [status |-> "encerrado"],
     [duration |-> 1, endDate |-> calculateEndDate(Date(2024, 1, 15), 1, FALSE)]}

PatchContracts(r) ==
    /\ Arrives(r)
    /\ \E id \in ContractIds, data \in ContractPatches :
        LET arrived == [NoReq EXCEPT !.op = "patchContract", !.id = id, !.data = data]
            answered(code) == [req EXCEPT ![r] = [arrived EXCEPT !.pc = "done", !.status = code]]
        IN  \/ \* the UPDATE throws
               /\ backend = "db"
               /\ req' = answered(500)
               /\ UNCHANGED contracts
            \/ /\ id \notin DOMAIN contracts
               /\ req' = answered(404)
               /\ UNCHANGED contracts
            \/ /\ id \in DOMAIN contracts
               /\ contracts' = [contracts EXCEPT ![id] = UpdatedContract(@, data)]
               /\ req' = answered(200)
    /\ UNCHANGED << env, catalog, payments, deletedPayments, nextId >>

\* The store holds one contract with its installments; the first request may
\* be a POST /api/contracts, and any request a PATCH /api/contracts/:id.
InitContractUpdates ==
    /\ backend \in {"db", "mem"}
    /\ west = FALSE
    /\ users = OneUser
    /\ owners = OneOwner
    /\ tenants = OneTenant
    /\ properties = OneProperty
    /\ contracts = (1 :> OneContract)
    /\ payments = MemInstallments(OneContract, 1, FALSE)
    /\ deletedPayments = << >>
    /\ nextId = [t \in Tables |-> IF t = "payments" THEN 3
                                  ELSE IF t = "deletedPayments" THEN 1 ELSE 2]
    /\ req = [r \in Reqs |-> NoReq]

NextContractUpdates ==
    \/ PostContracts(1)
    \/ CreateInstallment(1)
    \/ \E r \in Reqs : PatchContracts(r)

SpecContractUpdates == InitContractUpdates /\ [][NextContractUpdates]_vars

(***************************************************************************)
(* Properties: POST /api/properties; and the reads of owners, tenants and  *)
(* properties: the list routes with their showInactive filter and the      *)
(* routes by id.  Each read is one statement.                              *)
(***************************************************************************)
\* DatabaseStorage.createProperty inserts the columns it names, the address
\* as text; is_active takes the column's default.
DbPropertyRow(data, id) ==
    [id |-> id, ownerId |-> data.ownerId, address |-> JSONstringify(data.address),
     isActive |-> Val(TRUE)]

\* MemStorage.createProperty spreads the body into the row and stores the
\* address as text.
MemPropertyRow(data, id) ==
    [id |-> id, ownerId |-> data.ownerId,
     address |-> Stringified(Parsed(data.address)),
     isActive |-> Get(data, "isActive")]

\* What createProperty returns of the row it stored.
CreatedProperty(row) == [row EXCEPT !.address = Parsed(@)]

\* Bodies that pass propertyValidationSchema (owner 3: no such row).
PropertyInputs == [ownerId : {1, 3}, address : Addresses]

\* POST /api/properties: createProperty is its one statement.  With
\* DatabaseStorage an owner that does not exist violates the foreign key
\* (the sequence has advanced by then), and the route answers 500.
PostProperties(r) ==
    /\ Arrives(r)
    /\ \E data \in PropertyInputs :
        LET arrived == [NoReq EXCEPT !.op = "postProperty", !.data = data]
            answered(code, row) ==
                [req EXCEPT ![r] = [arrived EXCEPT !.pc = "done", !.status = code,
                                                   !.row = row]]
        IN  IF backend = "mem"
            THEN /\ properties' = Insert(properties, MemPropertyRow(data, nextId.properties))
                 /\ nextId' = Bump("properties")
                 /\ req' = answered(201, CreatedProperty(MemPropertyRow(data, nextId.properties)))
            ELSE \/ /\ data.ownerId \in DOMAIN owners
                    /\ properties' = Insert(properties, DbPropertyRow(data, nextId.properties))
                    /\ nextId' = Bump("properties")
                    /\ req' = answered(201, CreatedProperty(DbPropertyRow(data, nextId.properties)))
                 \/ /\ data.ownerId \notin DOMAIN owners
                    /\ nextId' = Bump("properties")
                    /\ req' = answered(500, << >>)
                    /\ UNCHANGED properties
                 \/ /\ req' = answered(500, << >>)
                    /\ UNCHANGED << properties, nextId >>
    /\ UNCHANGED << env, users, owners, tenants, leases >>

\* A list without a filter.
DbListedAll(table, showInactive) == Rows(table)

\* The rows DatabaseStorage selects for a list: WHERE is_active = true
\* unless showInactive.
DbListed(table, showInactive) ==
    IF showInactive THEN Rows(table)
    ELSE {row \in Rows(table) : row.isActive = Val(TRUE)}

\* The rows MemStorage keeps for a list: isActive !== false unless
\* showInactive.
MemListed(table, showInactive) ==
    IF showInactive THEN Rows(table)
    ELSE {row \in Rows(table) : row.isActive # Val(FALSE)}

\* A row as the reads map it: the address parsed when it is text.
ParsedRow(row) == [row EXCEPT !.address = Parsed(@)]

\* The array a list answers, here keyed by the rows' ids.
Listing(rows) == [id \in {row.id : row \in rows} |-> CHOOSE row \in rows : row.id = id]

\* What the lists return.  MemStorage.getOwners returns its rows as they are
\* stored; the other five map them.
getOwners(showInactive) ==
    IF backend = "mem" THEN Listing(MemListed(owners, showInactive))
    ELSE Listing({ParsedRow(row) : row \in DbListed(owners, showInactive)})

getTenants(showInactive) ==
    IF backend = "mem"
    THEN Listing({ParsedRow(row) : row \in MemListed(tenants, showInactive)})
    ELSE Listing({ParsedRow(row) : row \in DbListed(tenants, showInactive)})

getProperties(showInactive) ==
    IF backend = "mem"
    THEN Listing({ParsedRow(row) : row \in MemListed(properties, showInactive)})
    ELSE Listing({ParsedRow(row) : row \in DbListed(properties, showInactive)})

\* What the reads by id return of a row that exists.  MemStorage.getOwner
\* returns the row as it is stored; the other five map it.
getOwner(id) == IF backend = "mem" THEN owners[id] ELSE ParsedRow(owners[id])
getTenant(id) == ParsedRow(tenants[id])
getProperty(id) == ParsedRow(properties[id])

\* A list route answers: req.query.showInactive === 'true' is the flag.
\* With DatabaseStorage the SELECT may throw (500).
Listed(r, op, showInactive, rows) ==
    LET arrived == [NoReq EXCEPT !.op = op, !.data = [showInactive |-> showInactive]]
    IN  \/ req' = [req EXCEPT ![r] = [arrived EXCEPT !.pc = "done", !.status = 200,
                                                     !.row = rows]]
        \/ /\ backend = "db"
           /\ req' = [req EXCEPT ![r] = [arrived EXCEPT !.pc = "done", !.status = 500]]

\* A route by id answers the row, or 404 when there is none.
Fetched(r, op, id, table, row) ==
    LET arrived == [NoReq EXCEPT !.op = op, !.id = id]
    IN  \/ /\ id \in DOMAIN table
           /\ req' = [req EXCEPT ![r] = [arrived EXCEPT !.pc = "done", !.status = 200,
                                                        !.row = row]]
        \/ /\ id \notin DOMAIN table
           /\ req' = [req EXCEPT ![r] = [arrived EXCEPT !.pc = "done", !.status = 404]]
        \/ /\ backend = "db"
           /\ req' = [req EXCEPT ![r] = [arrived EXCEPT !.pc = "done", !.status = 500]]

\* The ids the reads name (4: no such row).
ReadIds == {1, 3, 4}

\* GET /api/owners, /api/tenants, /api/properties.
GetOwners(r) ==
    /\ Arrives(r)
    /\ \E showInactive \in BOOLEAN : Listed(r, "getOwners", showInactive, getOwners(showInactive))
    /\ UNCHANGED << env, catalog, leases, nextId >>

GetTenants(r) ==
    /\ Arrives(r)
    /\ \E showInactive \in BOOLEAN : Listed(r, "getTenants", showInactive, getTenants(showInactive))
    /\ UNCHANGED << env, catalog, leases, nextId >>

GetProperties(r) ==
    /\ Arrives(r)
    /\ \E showInactive \in BOOLEAN :
        Listed(r, "getProperties", showInactive, getProperties(showInactive))
    /\ UNCHANGED << env, catalog, leases, nextId >>

\* GET /api/owners/:id, /api/tenants/:id, /api/properties/:id.
GetOwner(r) ==
    /\ Arrives(r)
    /\ \E id \in ReadIds : Fetched(r, "getOwner", id, owners, getOwner(id))
    /\ UNCHANGED << env, catalog, leases, nextId >>

GetTenant(r) ==
    /\ Arrives(r)
    /\ \E id \in ReadIds : Fetched(r, "getTenant", id, tenants, getTenant(id))
    /\ UNCHANGED << env, catalog, leases, nextId >>

GetProperty(r) ==
    /\ Arrives(r)
    /\ \E id \in ReadIds : Fetched(r, "getProperty", id, properties, getProperty(id))
    /\ UNCHANGED << env, catalog, leases, nextId >>

\* Two properties of owner 1 with their addresses; the first may be
\* deactivated.
ListedProperties(active) ==
    (1 :> [id |-> 1, ownerId |-> 1, address |-> JSONstringify([street |-> "s1"]),
           isActive |-> active]) @@
    (2 :> [id |-> 2, ownerId |-> 1,
           address |-> JSONstringify([street |-> "s2", complement |-> "c2"]),
           isActive |-> Val(TRUE)])

\* The registry: two owners, two tenants and two properties, the first of
\* each possibly deactivated; requests create and read them.
InitRegistry ==
    /\ backend \in {"db", "mem"}
    /\ west = FALSE
    /\ users = OneUser
    /\ \E active \in {Val(TRUE), Val(FALSE)} :
        /\ owners = TwoOwners(active)
        /\ tenants = TwoTenants(active)
        /\ properties = ListedProperties(active)
    /\ contracts = << >>
    /\ payments = << >>
    /\ deletedPayments = << >>
    /\ nextId = [t \in Tables |-> IF t \in {"owners", "tenants", "properties"} THEN 3
                                  ELSE IF t = "users" THEN 2 ELSE 1]
    /\ req = [r \in Reqs |-> NoReq]

NextRegistry ==
    \E r \in Reqs : \/ PostOwners(r)
                    \/ createOwner(r)
                    \/ PostTenants(r)
                    \/ createTenant(r)
                    \/ PostProperties(r)
                    \/ GetOwners(r)
                    \/ GetTenants(r)
                    \/ GetProperties(r)
                    \/ GetOwner(r)
                    \/ GetTenant(r)
                    \/ GetProperty(r)

SpecRegistry == InitRegistry /\ [][NextRegistry]_vars

(***************************************************************************)
(* PaymentForm (client): the effect that fills in the late fee and the     *)
(* interest when the form's payment is marked paid.  The form's values are *)
(* the request's data; its amounts latePaymentFee and interestAmount are   *)
(* held in hundredths (2000 is 20.00), as toFixed(2) writes them.          *)
(***************************************************************************)
\* Date.prototype.getTime() of new Date("YYYY-MM-DD"), counted in minutes
\* (the dates are whole days, and the milliseconds of a date exceed the
\* integers of the model).
RECURSIVE DaysBeforeMonth(_, _)
DaysBeforeMonth(y, m) ==
    IF m = 1 THEN 0 ELSE DaysBeforeMonth(y, m - 1) + DaysInMonth(y, m - 1)

LeapDaysBefore(y) == ((y - 1) \div 4) - ((y - 1) \div 100) + ((y - 1) \div 400)

getTime(a) ==
    (365 * (a.y - 1970) + LeapDaysBefore(a.y) - LeapDaysBefore(1970)
        + DaysBeforeMonth(a.y, a.m) + (a.d - 1)) * 1440

\* Math.ceil(Math.abs(paymentDate.getTime() - dueDate.getTime()) / (1000 * 60 * 60 * 24))
diffDays(dueDate, paymentDate) ==
    LET diffTime == IF getTime(paymentDate) >= getTime(dueDate)
                    THEN getTime(paymentDate) - getTime(dueDate)
                    ELSE getTime(dueDate) - getTime(paymentDate)
    IN  (diffTime + 1440 - 1) \div 1440

\* parseFloat(x.toFixed(2)) of x = num / den hundredths: the nearest
\* hundredth.  When x lies exactly between two hundredths its double lies
\* on either side, so both are results.
toFixed2(num, den) ==
    {n \in {num \div den, (num \div den) + 1} :
        2 * (IF n * den >= num THEN n * den - num ELSE num - n * den) <= den}

\* Interest of 1% for every 30 days begun.
interestByMonth(baseValue, days) == {baseValue * ((days + 29) \div 30)}

\* lateFee = baseValue * 0.02, in hundredths.
lateFee(baseValue) == toFixed2(baseValue * 2, 1)

\* interest = baseValue * (0.01 / 30) * diffDays, in hundredths.
interest(baseValue, days) == toFixed2(baseValue * days, 30)

\* The effect: it runs when the payment is marked paid and has a payment
\* date, and leaves the form as it is otherwise.
lateFeeEffect(values) ==
    IF values.isPaid /\ values.paymentDate # Null
    THEN LET dueDate == values.dueDate
             paymentDate == values.paymentDate[1]
             baseValue == values.value
         IN  IF getTime(paymentDate) > getTime(dueDate)
             THEN {[values EXCEPT !.latePaymentFee = fee, !.interestAmount = amount] :
                        fee \in lateFee(baseValue),
                        amount \in interest(baseValue, diffDays(dueDate, paymentDate))}
             ELSE {[values EXCEPT !.latePaymentFee = 0, !.interestAmount = 0]}
    ELSE {values}

\* getDefaultValues: the form opened on a payment.
FormValues(payment) ==
    [dueDate |-> payment.dueDate, value |-> payment.value,
     isPaid |-> OrFalse(payment.isPaid)[1], paymentDate |-> payment.paymentDate,
     interestAmount |-> 100 * OrZero(payment.interestAmount)[1],
     latePaymentFee |-> 100 * OrZero(payment.latePaymentFee)[1]]

\* What the user enters: the payment dates (none, before, on and after the
\* due dates) and the paid switch.
FormValueInputs == {0, 15, 1000, 1005}
FormDueDates == {Date(2024, 2, 20), Date(2024, 3, 1)}
FormPaymentDates ==
    {Null, Val(Date(2024, 2, 19)), Val(Date(2024, 3, 1)), Val(Date(2024, 3, 2)),
     Val(Date(2024, 3, 11))}

\* The form is opened on a payment, the user sets the paid switch and the
\* payment date, and the effect runs.
PaymentForm(r) ==
    /\ Arrives(r)
    /\ \E id \in DOMAIN payments, isPaid \in BOOLEAN, paymentDate \in FormPaymentDates :
        \E values \in lateFeeEffect([FormValues(payments[id]) EXCEPT
                                        !.isPaid = isPaid, !.paymentDate = paymentDate]) :
            req' = [req EXCEPT ![r] = [NoReq EXCEPT !.op = "paymentForm", !.pc = "done",
                                                    !.id = id, !.data = values]]
    /\ UNCHANGED << env, catalog, leases, nextId >>

\* The store: one contract and an unpaid payment of it.
InitPaymentForm ==
    /\ backend \in {"db", "mem"}
    /\ west = FALSE
    /\ users = OneUser
    /\ owners = OneOwner
    /\ tenants = OneTenant
    /\ properties = OneProperty
    /\ contracts = (1 :> OneContract)
    /\ \E value \in FormValueInputs, dueDate \in FormDueDates :
        payments = (1 :> PaymentRow(DbPaymentValues(
                            [contractId |-> 1, dueDate |-> dueDate, value |-> value]), 1))
    /\ deletedPayments = << >>
    /\ nextId = [t \in Tables |-> IF t = "deletedPayments" THEN 1 ELSE 2]
    /\ req = [r \in Reqs |-> NoReq]

NextPaymentForm == \E r \in Reqs : PaymentForm(r)

SpecPaymentForm == InitPaymentForm /\ [][NextPaymentForm]_vars

(***************************************************************************)
(* The status routes of owners, tenants and properties: /status, activate, *)
(* deactivate and toggle-status.  Each ends in updateOwner, updateTenant   *)
(* or updateProperty with { isActive } alone.                              *)
(***************************************************************************)
\* updateProperty: the keys of the body replace the row's; an address of the
\* body is stored as text.
UpdatedProperty(property, body) ==
    [f \in DOMAIN property |->
        IF f \notin DOMAIN body THEN property[f]
        ELSE IF f = "address" THEN Stringified(body[f])
        ELSE body[f]]

\* A route that hands the whole body to the update.
StatusBodyWhole(body) == body
\* const { isActive } = req.body; ... update(id, { isActive })
StatusBody(body) == [isActive |-> body.isActive]

\* { isActive: true }, { isActive: false }, { isActive: !row.isActive }
Activated(row) == [isActive |-> Val(TRUE)]
Deactivated(row) == [isActive |-> Val(FALSE)]
Toggled(row) == [isActive |-> Val(~OrFalse(row.isActive)[1])]

\* The bodies of the /status routes: the second carries a name as well, the
\* third no isActive.
StatusBodies == {[isActive |-> Val(TRUE)], [isActive |-> Val(FALSE), name |-> "n9"],
                 [name |-> "n9"]}
\* Who asks for which row (user 0: no session; row 3: no such row).
StatusRequests == {[user |-> 1, id |-> 1], [user |-> 1, id |-> 3], [user |-> 0, id |-> 1]}

OwnerStatusOps == {"statusOwner", "activateOwner", "deactivateOwner", "toggleOwner"}
TenantStatusOps == {"statusTenant", "activateTenant", "deactivateTenant", "toggleTenant"}
PropertyStatusOps == {"activateProperty", "deactivateProperty"}

\* updateOwner, updateTenant or updateProperty on a row.
UpdatedRow(kind, row, body) ==
    CASE kind = "owner" -> UpdatedOwner(row, body)
      [] kind = "tenant" -> UpdatedTenant(row, body)
      [] OTHER -> UpdatedProperty(row, body)

\* What a route hands to the update after reading the row.
Partial(op, row) ==
    CASE op \in {"activateOwner", "activateTenant", "activateProperty"} -> Activated(row)
      [] op \in {"deactivateOwner", "deactivateTenant", "deactivateProperty"} ->
            Deactivated(row)
      [] OTHER -> Toggled(row)

\* The answer when the update found no row: the /status routes answer 404,
\* the others send the undefined result with 200.
NoRowAnswer(op) == IF op \in {"statusOwner", "statusTenant"} THEN 404 ELSE 200

\* PATCH /:id/status: 400 unless the body's isActive is a boolean, then the
\* update.  MemStorage runs it to its end; DatabaseStorage runs the update's
\* SELECT of the current row.
SetStatus(r, op, id, body, kind, table, tableNext) ==
    LET arrived == [NoReq EXCEPT !.op = op, !.id = id, !.data = body]
        answered(code) == [req EXCEPT ![r] = [arrived EXCEPT !.pc = "done", !.status = code]]
    IN  IF Get(body, "isActive") = Null
        THEN req' = answered(400) /\ tableNext = table
        ELSE IF backend = "mem"
        THEN IF id \notin DOMAIN table
             THEN req' = answered(404) /\ tableNext = table
             ELSE /\ tableNext = [table EXCEPT ![id] = UpdatedRow(kind, @, StatusBody(body))]
                  /\ req' = [req EXCEPT ![r] = [arrived EXCEPT !.pc = "done", !.status = 200,
                                                  !.data = StatusBody(body)]]
        ELSE /\ \/ req' = answered(500)
                \/ id \notin DOMAIN table /\ req' = answered(404)
                \/ /\ id \in DOMAIN table
                   /\ req' = [req EXCEPT ![r] = [arrived EXCEPT !.pc = "update",
                                                   !.data = StatusBody(body)]]
             /\ tableNext = table

\* activate, deactivate, toggle-status: 401 without a session, then the
\* route reads the row (404 if there is none) and updates it with
\* Partial(op, row).  MemStorage runs all of it; DatabaseStorage runs the
\* route's SELECT.
ReadThenSet(r, op, who, kind, table, tableNext) ==
    LET arrived == [NoReq EXCEPT !.op = op, !.user = who.user, !.id = who.id]
        answered(code) == [req EXCEPT ![r] = [arrived EXCEPT !.pc = "done", !.status = code]]
    IN  IF who.user = 0
        THEN req' = answered(401) /\ tableNext = table
        ELSE IF backend = "mem"
        THEN IF who.id \notin DOMAIN table
             THEN req' = answered(404) /\ tableNext = table
             ELSE /\ tableNext = [table EXCEPT ![who.id] = UpdatedRow(kind, @, Partial(op, table[who.id]))]
                  /\ req' = [req EXCEPT ![r] = [arrived EXCEPT !.pc = "done", !.status = 200,
                                                  !.data = Partial(op, table[who.id])]]
        ELSE /\ \/ req' = answered(500)
                \/ who.id \notin DOMAIN table /\ req' = answered(404)
                \/ /\ who.id \in DOMAIN table
                   /\ req' = [req EXCEPT ![r] = [arrived EXCEPT !.pc = "select",
                                                   !.data = Partial(op, table[who.id])]]
             /\ tableNext = table

\* DatabaseStorage.update*, first statement: the SELECT of the current row.
CurrentRow(r, ops, table) ==
    /\ req[r].op \in ops /\ req[r].pc = "select"
    /\ \/ req' = [req EXCEPT ![r] = Responded(r, 500)]
       \/ /\ req[r].id \notin DOMAIN table
          /\ req' = [req EXCEPT ![r] = Responded(r, NoRowAnswer(req[r].op))]
       \/ /\ req[r].id \in DOMAIN table
          /\ req' = [req EXCEPT ![r].pc = "update"]

\* DatabaseStorage.update*, second statement: UPDATE ... SET is_active
\* ... RETURNING.
UpdateRow(r, ops, kind, table, tableNext) ==
    /\ req[r].op \in ops /\ req[r].pc = "update"
    /\ \/ /\ req[r].id \in DOMAIN table
          /\ tableNext = [table EXCEPT ![req[r].id] = UpdatedRow(kind, @, req[r].data)]
          /\ req' = [req EXCEPT ![r] = Responded(r, 200)]
       \/ /\ req[r].id \notin DOMAIN table
          /\ tableNext = table
          /\ req' = [req EXCEPT ![r] = Responded(r, NoRowAnswer(req[r].op))]
       \/ /\ tableNext = table
          /\ req' = [req EXCEPT ![r] = Responded(r, 500)]

\* PATCH /api/owners/:id/status
OwnerStatus(r) ==
    /\ Arrives(r)
    /\ \E who \in StatusRequests, body \in StatusBodies :
        SetStatus(r, "statusOwner", who.id, body, "owner", owners, owners')
    /\ UNCHANGED << env, users, tenants, properties, leases, nextId >>

\* POST /api/owners/:id/activate
OwnerActivate(r) ==
    /\ Arrives(r)
    /\ \E who \in StatusRequests :
        ReadThenSet(r, "activateOwner", who, "owner", owners, owners')
    /\ UNCHANGED << env, users, tenants, properties, leases, nextId >>

\* POST /api/owners/:id/deactivate
OwnerDeactivate(r) ==
    /\ Arrives(r)
    /\ \E who \in StatusRequests :
        ReadThenSet(r, "deactivateOwner", who, "owner", owners, owners')
    /\ UNCHANGED << env, users, tenants, properties, leases, nextId >>

\* PATCH /api/owners/:id/toggle-status
OwnerToggle(r) ==
    /\ Arrives(r)
    /\ \E who \in StatusRequests :
        ReadThenSet(r, "toggleOwner", who, "owner", owners, owners')
    /\ UNCHANGED << env, users, tenants, properties, leases, nextId >>

currentOwner(r) ==
    /\ CurrentRow(r, OwnerStatusOps, owners)
    /\ UNCHANGED << env, catalog, leases, nextId >>

updateOwnerStatus(r) ==
    /\ UpdateRow(r, OwnerStatusOps, "owner", owners, owners')
    /\ UNCHANGED << env, users, tenants, properties, leases, nextId >>

\* PATCH /api/tenants/:id/status
TenantStatus(r) ==
    /\ Arrives(r)
    /\ \E who \in StatusRequests, body \in StatusBodies :
        SetStatus(r, "statusTenant", who.id, body, "tenant", tenants, tenants')
    /\ UNCHANGED << env, users, owners, properties, leases, nextId >>

\* POST /api/tenants/:id/activate
TenantActivate(r) ==
    /\ Arrives(r)
    /\ \E who \in StatusRequests :
        ReadThenSet(r, "activateTenant", who, "tenant", tenants, tenants')
    /\ UNCHANGED << env, users, owners, properties, leases, nextId >>

\* POST /api/tenants/:id/deactivate
TenantDeactivate(r) ==
    /\ Arrives(r)
    /\ \E who \in StatusRequests :
        ReadThenSet(r, "deactivateTenant", who, "tenant", tenants, tenants')
    /\ UNCHANGED << env, users, owners, properties, leases, nextId >>

\* PATCH /api/tenants/:id/toggle-status
TenantToggle(r) ==
    /\ Arrives(r)
    /\ \E who \in StatusRequests :
        ReadThenSet(r, "toggleTenant", who, "tenant", tenants, tenants')
    /\ UNCHANGED << env, users, owners, properties, leases, nextId >>

currentTenant(r) ==
    /\ CurrentRow(r, TenantStatusOps, tenants)
    /\ UNCHANGED << env, catalog, leases, nextId >>

updateTenantStatus(r) ==
    /\ UpdateRow(r, TenantStatusOps, "tenant", tenants, tenants')
    /\ UNCHANGED << env, users, owners, properties, leases, nextId >>

\* POST /api/properties/:id/activate
PropertyActivate(r) ==
    /\ Arrives(r)
    /\ \E who \in StatusRequests :
        ReadThenSet(r, "activateProperty", who, "property", properties, properties')
    /\ UNCHANGED << env, users, owners, tenants, leases, nextId >>

\* POST /api/properties/:id/deactivate
PropertyDeactivate(r) ==
    /\ Arrives(r)
    /\ \E who \in StatusRequests :
        ReadThenSet(r, "deactivateProperty", who, "property", properties, properties')
    /\ UNCHANGED << env, users, owners, tenants, leases, nextId >>

currentProperty(r) ==
    /\ CurrentRow(r, PropertyStatusOps, properties)
    /\ UNCHANGED << env, catalog, leases, nextId >>

updatePropertyStatus(r) ==
    /\ UpdateRow(r, PropertyStatusOps, "property", properties, properties')
    /\ UNCHANGED << env, users, owners, tenants, leases, nextId >>

\* The store: two owners, tenants and properties, all active; the first of
\* each have a contract with its two installments.
InitStatus ==
    /\ backend \in {"db", "mem"}
    /\ west = FALSE
    /\ users = OneUser
    /\ owners = TwoOwners(Val(TRUE))
    /\ tenants = TwoTenants(Val(TRUE))
    /\ properties = ListedProperties(Val(TRUE))
    /\ contracts = (1 :> OneContract)
    /\ payments = MemInstallments(OneContract, 1, FALSE)
    /\ deletedPayments = << >>
    /\ nextId = [t \in Tables |-> IF t = "deletedPayments" THEN 1
                                  ELSE IF t \in {"users", "contracts"} THEN 2 ELSE 3]
    /\ req = [r \in Reqs |-> NoReq]

NextStatus ==
    \E r \in Reqs : \/ OwnerStatus(r)
                    \/ OwnerActivate(r)
                    \/ OwnerDeactivate(r)
                    \/ currentOwner(r)
                    \/ updateOwnerStatus(r)
                    \/ TenantStatus(r)
                    \/ TenantActivate(r)
                    \/ TenantDeactivate(r)
                    \/ currentTenant(r)
                    \/ updateTenantStatus(r)
                    \/ PropertyActivate(r)
                    \/ PropertyDeactivate(r)
                    \/ currentProperty(r)
                    \/ updatePropertyStatus(r)

SpecStatus == InitStatus /\ [][NextStatus]_vars

\* The toggles on their own.
NextToggles ==
    \E r \in Reqs : \/ OwnerToggle(r)
                    \/ currentOwner(r)
                    \/ updateOwnerStatus(r)
                    \/ TenantToggle(r)
                    \/ currentTenant(r)
                    \/ updateTenantStatus(r)

SpecToggles == InitStatus /\ [][NextToggles]_vars

(***************************************************************************)
(* Claims on contract creation (SpecContracts).                            *)
(***************************************************************************)
\* Months since year 0 of a date.
MonthIndex(a) == a.y * 12 + (a.m - 1)

\* The payments of a contract in the live store.
PaymentsOf(c) == {p \in Rows(payments) : p.contractId = c.id}

\* The stored row of installment i of a contract ("Parcela i+1/n").
InstallmentOf(c, i) ==
    CHOOSE p \in PaymentsOf(c) : p.observations = Val(<< i + 1, c.duration >>)

\* C1: once POST /api/contracts has answered 201 for a contract of duration
\* n >= 1, exactly n payment rows carry the contract's id, and each has
\* value = contract.rentValue and isPaid = false.
InstallmentCount ==
    \A r \in Reqs : (req[r].op = "postContract" /\ req[r].status = 201) =>
        LET c == req[r].row
        IN  /\ c.duration >= 1
            /\ c.id \in DOMAIN contracts /\ contracts[c.id] = c
            /\ Cardinality(PaymentsOf(c)) = c.duration
            /\ \A p \in PaymentsOf(c) : p.value = c.rentValue /\ p.isPaid = Val(FALSE)

\* C1's case: a contract of the longest duration was created through
\* DatabaseStorage, each insert a step of its own.
InstallmentCountWitness ==
    \E r \in Reqs : /\ req[r].op = "postContract" /\ req[r].status = 201
                    /\ backend = "db" /\ req[r].row.duration = MaxDuration
                    /\ Cardinality(PaymentsOf(req[r].row)) = MaxDuration

\* C2: the due dates of a created contract advance by exactly one calendar
\* month from installment i to i+1, and installment i falls on paymentDay of
\* month (start month + i) whenever that month has such a day.
DueDateProgression ==
    \A r \in Reqs : (req[r].op = "postContract" /\ req[r].status = 201) =>
        LET c == req[r].row
            target(i) == MakeDay(c.startDate.y, (c.startDate.m - 1) + i, 1)
        IN  \A i \in 0 .. (c.duration - 1) :
                LET due == InstallmentOf(c, i).dueDate
                IN  /\ i + 1 < c.duration =>
                        LET next == InstallmentOf(c, i + 1).dueDate
                        IN  DateLT(due, next) /\ MonthIndex(next) = MonthIndex(due) + 1
                    /\ c.paymentDay <= DaysInMonth(target(i).y, target(i).m) =>
                        due = Date(target(i).y, target(i).m, c.paymentDay)

\* C9: a finished POST /api/contracts (answered, no insert in flight) that
\* created its contract left either all `duration` payments (and answered
\* 201) or, when an insert failed, none.
InstallmentsAllOrNothing ==
    \A r \in Reqs :
        (req[r].op = "postContract" /\ req[r].pc = "done" /\ req[r].pending = {}
            /\ req[r].row # << >>) =>
        LET c == req[r].row
        IN  IF req[r].status = 201
            THEN Cardinality(PaymentsOf(c)) = c.duration
            ELSE PaymentsOf(c) = {}

(***************************************************************************)
(* Claims on the payment lifecycle (SpecPayments).                         *)
(***************************************************************************)
\* C3: no step of the server takes a payment whose isPaid is true back to
\* isPaid = false.
PaidStaysPaid ==
    [][\A id \in DOMAIN payments \cap DOMAIN payments' :
          payments[id].isPaid = Val(TRUE) => payments'[id].isPaid # Val(FALSE)]_vars

\* The ledger rows of a payment id in a ledger.
LedgerOf(ledger, id) == {d \in Rows(ledger) : d.originalId = id}

\* C4: the step in which deletePayment(paymentId, userId) succeeds leaves no
\* payment of that id in the live store and exactly one ledger row with
\* originalId = paymentId; that row has deletedBy = userId and carries the
\* values the payment had just before the step.
DeleteArchivesExactly ==
    [][\A r \in Reqs :
          (req'[r].op = "deletePayment" /\ req[r].status = 0 /\ req'[r].status = 204) =>
          LET id == req'[r].id
              ledger == LedgerOf(deletedPayments', id)
          IN  /\ id \notin DOMAIN payments'
              /\ Cardinality(ledger) = 1
              /\ \A d \in ledger :
                    /\ d.deletedBy = req'[r].user
                    /\ id \in DOMAIN payments =>
                          \A f \in PaymentFields : d[f] = payments[id][f]]_vars

\* C5: in every reachable state no ledger row exists for a payment that is
\* still in the live store, and every payment gone from the live store has a
\* ledger row.
PaymentDeletionAtomic ==
    /\ \A d \in Rows(deletedPayments) : d.originalId \notin DOMAIN payments
    /\ \A id \in DOMAIN MemInstallments(OneContract, 1, FALSE) \ DOMAIN payments :
          LedgerOf(deletedPayments, id) # {}

\* C6: a DELETE by a signed-in user for an id that no live payment has is
\* answered 404 at once (deletePayment returned false) and changes neither
\* the live store nor the ledger.
DeleteMissingNotFound ==
    [][\A r \in Reqs :
          (req[r].pc = "idle" /\ req'[r].op = "deletePayment" /\ req'[r].user # 0
              /\ req'[r].id \notin DOMAIN payments) =>
          /\ req'[r].pc = "done" /\ req'[r].status = 404
          /\ payments' = payments /\ deletedPayments' = deletedPayments]_vars

\* C6's case: a signed-in user's DELETE of a payment that another request
\* had deleted before was answered 404.
DeleteMissingWitness ==
    \E r, q \in Reqs :
        /\ q < r /\ req[q].op = "deletePayment" /\ req[q].status = 204
        /\ req[r].op = "deletePayment" /\ req[r].id = req[q].id /\ req[r].user # 0
        /\ req[r].row = << >> /\ req[r].status = 404
        /\ Cardinality(LedgerOf(deletedPayments, req[r].id)) = 1

\* C10: the step in which markAsPaidMutation's PATCH updates a payment that
\* was not paid leaves it with isPaid = true, paymentDate = today and the
\* supplied method, receipt, interest and fee; its contractId, dueDate, value
\* and observations and every other payment are as before.
MarkAsPaidFrame ==
    [][\A r \in Reqs :
          (req[r].pc = "idle" /\ req'[r].op = "markAsPaid" /\ req'[r].status = 200
              /\ payments[req'[r].id].isPaid # Val(TRUE)) =>
          LET id == req'[r].id
              data == req'[r].data
              old == payments[id]
              new == payments'[id]
          IN  /\ new.isPaid = Val(TRUE)
              /\ new.paymentDate = Val(Today)
              /\ new.paymentMethod = Val(data.paymentMethod)
              /\ new.receiptNumber = Val(data.receiptNumber)
              /\ new.interestAmount = data.interestAmount
              /\ new.latePaymentFee = data.latePaymentFee
              /\ new.contractId = old.contractId /\ new.dueDate = old.dueDate
              /\ new.value = old.value /\ new.observations = old.observations
              /\ DOMAIN payments' = DOMAIN payments
              /\ \A other \in DOMAIN payments \ {id} : payments'[other] = payments[other]
              /\ deletedPayments' = deletedPayments]_vars

\* C10's case: a payment was marked as paid with interest supplied, and the
\* store holds it as paid with that interest.
MarkAsPaidWitness ==
    \E r \in Reqs :
        /\ req[r].op = "markAsPaid" /\ req[r].status = 200
        /\ req[r].data.interestAmount = Val(50)
        /\ req[r].id \in DOMAIN payments
        /\ payments[req[r].id].isPaid = Val(TRUE)
        /\ payments[req[r].id].interestAmount = Val(50)

(***************************************************************************)
(* Claims on owners and tenants (SpecOwners, SpecOwnersDb).                *)
(***************************************************************************)
\* C7: a POST /api/owners whose document an existing owner has, active or
\* not, is answered at once with 400 (500 if the lookup statement itself
\* throws) and adds no owner row; likewise POST /api/tenants against the
\* tenants.
DuplicateDocumentRejected ==
    [][\A r \in Reqs :
          /\ (req[r].pc = "idle" /\ req'[r].op = "postOwner"
                /\ \E o \in Rows(owners) : o.document = req'[r].data.document) =>
                /\ req'[r].pc = "done"
                /\ req'[r].status = 400 \/ (backend = "db" /\ req'[r].status = 500)
                /\ owners' = owners
          /\ (req[r].pc = "idle" /\ req'[r].op = "postTenant"
                /\ \E t \in Rows(tenants) : t.document = req'[r].data.document) =>
                /\ req'[r].pc = "done"
                /\ req'[r].status = 400 \/ (backend = "db" /\ req'[r].status = 500)
                /\ tenants' = tenants]_vars

\* C7's case: an owner creation was refused with 400 for the document of a
\* deactivated owner, and a tenant creation for that of a deactivated tenant.
DuplicateDocumentWitness ==
    \E r, q \in Reqs :
        /\ req[r].op = "postOwner" /\ req[r].status = 400
        /\ \E o \in Rows(owners) :
              o.document = req[r].data.document /\ o.isActive = Val(FALSE)
        /\ req[q].op = "postTenant" /\ req[q].status = 400
        /\ \E t \in Rows(tenants) :
              t.document = req[q].data.document /\ t.isActive = Val(FALSE)
        /\ DOMAIN owners = {1, 2} /\ DOMAIN tenants = {1, 2}

StatsAnswers == {req[r].row : r \in {q \in Reqs :
                    req[q].op = "getDashboardStats" /\ req[q].status = 200}}

\* C11: expiredContracts is the number of contracts that are not closed
\* ('encerrado') and whose endDate is before today.
ExpiredContractsCount ==
    \A stats \in StatsAnswers :
        stats.expiredContracts = Cardinality({c \in Rows(contracts) :
            c.status # "encerrado" /\ DateLT(c.endDate, Today)})

\* C12: expiringContracts is the number of contracts that are not closed and
\* whose endDate is from today to today + 30 days.
ExpiringContractsCount ==
    \A stats \in StatsAnswers :
        stats.expiringContracts = Cardinality({c \in Rows(contracts) :
            /\ c.status # "encerrado"
            /\ DateLE(Today, c.endDate)
            /\ DateLE(c.endDate, MakeDay(Today.y, Today.m - 1, Today.d + 30))})

\* C13: totalContracts is the number of contracts whose status is 'ativo'.
TotalContractsCount ==
    \A stats \in StatsAnswers :
        stats.totalContracts = Cardinality({c \in Rows(contracts) : c.status = "ativo"})

\* C14: pendingPayments is the number of unpaid payments due after today and
\* overduePayments the number of unpaid payments due today or before.
PaymentsClassified ==
    \A stats \in StatsAnswers :
        /\ stats.pendingPayments = Cardinality({p \in Rows(payments) :
              p.isPaid # Val(TRUE) /\ DateLT(Today, p.dueDate)})
        /\ stats.overduePayments = Cardinality({p \in Rows(payments) :
              p.isPaid # Val(TRUE) /\ DateLE(p.dueDate, Today)})

(***************************************************************************)
(* Claims on the ledger (SpecPayments) and on deletes (SpecDeletes).       *)
(***************************************************************************)
\* C15: no step removes a row of the deleted-payments ledger or changes one
\* of its fields; the ledger only grows.
LedgerAppendOnly ==
    [][\A id \in DOMAIN deletedPayments :
          id \in DOMAIN deletedPayments' /\ deletedPayments'[id] = deletedPayments[id]]_vars

\* C15's case: the ledger grew twice and both archived payments are gone
\* from the live store.
LedgerAppendOnlyWitness ==
    /\ Cardinality(DOMAIN deletedPayments) = 2
    /\ \A d \in Rows(deletedPayments) : d.originalId \notin DOMAIN payments
    /\ \E r \in Reqs : req[r].op = "deletePayment" /\ req[r].status = 204

\* C16: no step removes an owner that a property or a contract references.
ReferencedOwnerKept ==
    [][\A id \in DOMAIN owners : OwnerReferenced(id) => id \in DOMAIN owners']_vars

\* C17: a DELETE of an owner, tenant, property or contract whose id no row
\* has is answered 404 and changes no table.
DeleteMissingRowNotFound ==
    [][\A r \in Reqs :
          (req[r].pc = "idle" /\ req'[r].pc = "done" /\
              \/ req'[r].op = "deleteOwner" /\ req'[r].id \notin DOMAIN owners
              \/ req'[r].op = "deleteTenant" /\ req'[r].id \notin DOMAIN tenants
              \/ req'[r].op = "deleteProperty" /\ req'[r].id \notin DOMAIN properties
              \/ req'[r].op = "deleteContract" /\ req'[r].id \notin DOMAIN contracts) =>
          /\ req'[r].status = 404
          /\ UNCHANGED << catalog, leases >>]_vars

\* C18: when the archive INSERT or the row DELETE inside deletePayment
\* throws, the request is answered with an error (5xx), not with 404 or 204.
DeleteFailureSurfaced ==
    [][\A r \in Reqs :
          (req[r].op = "deletePayment" /\ req'[r].pc = "done" /\
              \/ req[r].pc = "archive"
              \/ req[r].pc = "remove" /\ req[r].id \in DOMAIN payments') =>
          req'[r].status >= 500]_vars

(***************************************************************************)
(* Claims on the admin routes (SpecAdmin).                                 *)
(***************************************************************************)
\* C19: a request to a route under /api/admin/ that comes without an
\* authenticated session (no session, or the session of a user row that is
\* gone) is answered 401, and one of an authenticated user whose role is not
\* "admin" is answered 403 (500 if loading the session's user throws); either
\* way it is answered on arrival, before its handler runs, and no user row is
\* created, updated or deleted.
AdminGateHolds ==
    [][\A r \in Reqs :
          (req[r].pc = "idle" /\ req'[r].op \in {"getAdminUsers", "postAdminUser",
                                                 "putAdminUser", "deleteAdminUser"}) =>
              LET session == req'[r].user
              IN  /\ session = 0 =>
                        req'[r].pc = "done" /\ req'[r].status = 401 /\ users' = users
                  /\ (session # 0 /\ session \notin DOMAIN users) =>
                        req'[r].pc = "done" /\ req'[r].status \in {401, 500}
                            /\ users' = users
                  /\ (session \in DOMAIN users /\ users[session].role # "admin") =>
                        req'[r].pc = "done" /\ req'[r].status \in {403, 500}
                            /\ users' = users]_vars

\* C19's case: a creation without a session was answered 401 and a deletion
\* of the administrator by the plain user 403, and the users are as before.
AdminGateWitness ==
    \E r, q \in Reqs :
        /\ req[r].op = "postAdminUser" /\ req[r].user = 0 /\ req[r].status = 401
        /\ req[q].op = "deleteAdminUser" /\ req[q].user = 2 /\ req[q].id = 1
        /\ req[q].status = 403
        /\ users = AdminUsers

(***************************************************************************)
(* Claims on contract updates (SpecContractUpdates).                       *)
(***************************************************************************)
\* C20: in every reachable state every stored contract has
\* endDate = startDate + duration months, as calculateEndDate computes it.
EndDateDerived ==
    \A c \in Rows(contracts) : c.endDate = calculateEndDate(c.startDate, c.duration, FALSE)

(***************************************************************************)
(* Claims on the reads of owners, tenants and properties (SpecRegistry).   *)
(***************************************************************************)
\* C21: a list of owners, tenants or properties asked without showInactive
\* returns exactly the rows whose isActive is not false, and with
\* showInactive = true every row; a read by id of a row that exists returns
\* it (500 if the statement throws), deactivated or not.
ListsActiveByDefault ==
    [][\A r \in Reqs :
          LET table == IF req'[r].op \in {"getOwners", "getOwner"} THEN owners
                       ELSE IF req'[r].op \in {"getTenants", "getTenant"} THEN tenants
                       ELSE properties
          IN  /\ (req[r].pc = "idle" /\ req'[r].status = 200
                    /\ req'[r].op \in {"getOwners", "getTenants", "getProperties"}) =>
                    {row.id : row \in Rows(req'[r].row)} =
                        IF req'[r].data.showInactive THEN DOMAIN table
                        ELSE {id \in DOMAIN table : table[id].isActive # Val(FALSE)}
              /\ (req[r].pc = "idle" /\ req'[r].id \in DOMAIN table
                    /\ req'[r].op \in {"getOwner", "getTenant", "getProperty"}) =>
                    \/ req'[r].status = 200 /\ req'[r].row.id = req'[r].id
                    \/ backend = "db" /\ req'[r].status = 500]_vars

\* C21's case: with the first owner deactivated, the default list of owners
\* left it out, and a read of it by id returned it.
ListsActiveByDefaultWitness ==
    \E r, q \in Reqs :
        /\ owners[1].isActive = Val(FALSE)
        /\ req[r].op = "getOwners" /\ req[r].status = 200
        /\ ~req[r].data.showInactive
        /\ {row.id : row \in Rows(req[r].row)} = {2}
        /\ req[q].op = "getOwner" /\ req[q].id = 1 /\ req[q].status = 200
        /\ req[q].row.isActive = Val(FALSE)

\* C22: the address of an owner, tenant or property comes back structured
\* and equal to the one it was created with: in the result of the create, in
\* a read by id and in every row of a list.
AddressRoundTrip ==
    \A r \in Reqs :
        /\ (req[r].status = 201
              /\ req[r].op \in {"postOwner", "postTenant", "postProperty"}) =>
              req[r].row.address = req[r].data.address
        /\ (req[r].status = 200
              /\ req[r].op \in {"getOwner", "getTenant", "getProperty"}) =>
              req[r].row.address \in Addresses
        /\ (req[r].status = 200
              /\ req[r].op \in {"getOwners", "getTenants", "getProperties"}) =>
              \A row \in Rows(req[r].row) : row.address \in Addresses

(***************************************************************************)
(* Claims on the ids of created rows (SpecAdmin).                          *)
(***************************************************************************)
\* C23: a created user gets an id strictly greater than every id assigned to
\* a user before: those of the rows the store began with, of the rows it
\* holds, and of the rows created by the requests answered so far.
CreatedIdsIncrease ==
    [][\A r \in Reqs :
          (req[r].pc = "createUser" /\ req'[r].status = 201) =>
              /\ \A id \in DOMAIN AdminUsers \cup DOMAIN users : req'[r].row.id > id
              /\ \A q \in Reqs :
                    (req[q].op = "postAdminUser" /\ req[q].status = 201) =>
                        req'[r].row.id > req[q].row.id]_vars

(***************************************************************************)
(* Claims on the completion of the installments (SpecContracts).           *)
(***************************************************************************)
\* C24: POST /api/contracts answers 201 only in a step after which no insert
\* of its installments is outstanding and `duration` payments of the
\* contract are stored, whatever the order in which the inserts complete.
SuccessAfterAllInserts ==
    [][\A r \in Reqs :
          (req'[r].op = "postContract" /\ req[r].status # 201 /\ req'[r].status = 201) =>
              /\ req'[r].pending = {}
              /\ Cardinality({p \in Rows(payments') : p.contractId = req'[r].row.id})
                    = req'[r].row.duration]_vars

\* C24's case: the inserts of a contract completed out of loop order (the
\* last installment was stored first) and the request was then answered 201.
SuccessAfterAllInsertsWitness ==
    \E r \in Reqs :
        /\ backend = "db" /\ req[r].op = "postContract" /\ req[r].status = 201
        /\ req[r].row.duration = MaxDuration
        /\ \E p, q \in PaymentsOf(req[r].row) :
              /\ p.observations = Val(<< 1, MaxDuration >>)
              /\ q.observations = Val(<< MaxDuration, MaxDuration >>)
              /\ q.id < p.id

(***************************************************************************)
(* Claims on the payment form (SpecPaymentForm).                           *)
(***************************************************************************)
\* C25: when the form's payment is marked paid with a payment date after the
\* due date, latePaymentFee is 2% of the value and interestAmount is
\* value * (0.01 / 30) * daysLate to the nearest hundredth; with a payment
\* date on or before the due date both are 0.  (Amounts in hundredths.)
LateFeeComputed ==
    \A r \in Reqs :
        (req[r].op = "paymentForm" /\ req[r].data.isPaid
            /\ req[r].data.paymentDate # Null) =>
            LET form == req[r].data
                due == form.dueDate
                paid == form.paymentDate[1]
                late == {k \in 1..60 : MakeDay(due.y, due.m - 1, due.d + k) = paid}
            IN  IF DateLT(due, paid)
                THEN \E daysLate \in late :
                        /\ 100 * form.latePaymentFee = 2 * (100 * form.value)
                        /\ 2 * (30 * form.interestAmount - form.value * daysLate) <= 30
                        /\ 2 * (form.value * daysLate - 30 * form.interestAmount) <= 30
                ELSE form.latePaymentFee = 0 /\ form.interestAmount = 0

\* C25's case: a payment of 1000.00 due on 2024-03-01 and paid ten days
\* late got a late fee of 20.00 and interest of 3.33.
LateFeeComputedWitness ==
    \E r \in Reqs :
        /\ req[r].op = "paymentForm" /\ req[r].data.isPaid
        /\ req[r].data.value = 1000
        /\ req[r].data.dueDate = Date(2024, 3, 1)
        /\ req[r].data.paymentDate = Val(Date(2024, 3, 11))
        /\ req[r].data.latePaymentFee = 2000
        /\ req[r].data.interestAmount = 333

\* C26: in every reachable state the ledger holds at most one row per
\* originalId, and of the DELETE requests for one payment id at most one has
\* reported success, also when two of them read the payment before either
\* removed it.
OneArchivePerPayment ==
    \A id \in PaymentIds :
        /\ Cardinality(LedgerOf(deletedPayments, id)) <= 1
        /\ Cardinality({r \in Reqs : req[r].op = "deletePayment" /\ req[r].id = id
                                        /\ req[r].status = 204}) <= 1

\* C27: in every reachable state the contractId of every live payment is the
\* id of an existing contract, also after a DELETE of a contract that has
\* payments and after a POST /api/payments naming any contract.
PaymentsReferContracts ==
    \A payment \in Rows(payments) : payment.contractId \in DOMAIN contracts

(***************************************************************************)
(* Claims on the status routes (SpecStatus, SpecToggles).                  *)
(***************************************************************************)
\* A table differs from its successor at most in the isActive of row id.
OnlyStatusChanged(table, tableNext, id) ==
    /\ DOMAIN tableNext = DOMAIN table
    /\ \A i \in DOMAIN table :
          /\ DOMAIN tableNext[i] = DOMAIN table[i]
          /\ \A f \in DOMAIN table[i] :
                (i # id \/ f # "isActive") => tableNext[i][f] = table[i][f]

\* C28: a step of a /status, activate or deactivate request on an owner,
\* tenant or property changes nothing but the isActive of the row it names,
\* which becomes the value asked for: that row's other fields, the other
\* rows, the other tables, the contracts and the payments stay as they
\* were; on a row that has the value already the step changes nothing.
StatusChangesOnlyFlag ==
    [][\A r \in Reqs :
          (req'[r] # req[r]
              /\ req'[r].op \in OwnerStatusOps \cup TenantStatusOps \cup PropertyStatusOps) =>
          LET id == req'[r].id
              op == req'[r].op
              written(table, tableNext) ==
                  /\ OnlyStatusChanged(table, tableNext, id)
                  /\ tableNext # table =>
                        /\ req'[r].status = 200
                        /\ tableNext[id].isActive = req'[r].data.isActive
          IN  /\ written(owners, owners') /\ written(tenants, tenants')
              /\ written(properties, properties')
              /\ op \notin OwnerStatusOps => owners' = owners
              /\ op \notin TenantStatusOps => tenants' = tenants
              /\ op \notin PropertyStatusOps => properties' = properties
              /\ contracts' = contracts /\ payments' = payments
              /\ deletedPayments' = deletedPayments /\ users' = users]_vars

\* C28's case: the first owner, active at the start, was deactivated by a
\* /status request whose body carried a name too, and then deactivated
\* again; it is inactive with the name, document and address it had, and the
\* other owner, the tenants, the contract and its installments are as they
\* were.
StatusChangesOnlyFlagWitness ==
    /\ req[1].op = "statusOwner" /\ req[1].status = 200 /\ req[1].id = 1
    /\ req[1].data = [isActive |-> Val(FALSE)]
    /\ req[2].op = "deactivateOwner" /\ req[2].status = 200 /\ req[2].id = 1
    /\ owners = TwoOwners(Val(FALSE))
    /\ tenants = TwoTenants(Val(TRUE))
    /\ contracts = (1 :> OneContract)
    /\ payments = MemInstallments(OneContract, 1, FALSE)

\* C29: once no toggle-status request on an owner or a tenant is in flight,
\* its isActive is the initial value (active) flipped once for every toggle
\* request on it that has completed, in whatever order the requests' reads
\* and writes ran.
TogglesInvert ==
    \A id \in {1, 2} :
        LET flipped(op) ==
                Cardinality({r \in Reqs : req[r].op = op /\ req[r].id = id
                                             /\ req[r].status = 200})
            quiet(op) == \A r \in Reqs : (req[r].op = op /\ req[r].id = id) =>
                                            req[r].pc = "done"
        IN  /\ quiet("toggleOwner") =>
                    owners[id].isActive = Val(flipped("toggleOwner") % 2 = 0)
            /\ quiet("toggleTenant") =>
                    tenants[id].isActive = Val(flipped("toggleTenant") % 2 = 0)

\* C30: in every answer of the dashboard, pendingPayments + overduePayments
\* is the number of live payments that are not paid (isPaid false or unset):
\* every such payment is counted in exactly one of the two, and no paid
\* payment in either.
UnpaidPartitioned ==
    \A stats \in StatsAnswers :
        stats.pendingPayments + stats.overduePayments =
            Cardinality({p \in Rows(payments) : p.isPaid \in {Null, Val(FALSE)}})

====
